---- MODULE Spec2Model ----
(***************************************************************************)
(* A model of the house-inspection pipeline engine (agents-service):       *)
(*   - the rate-limit / concurrency governor (RateLimiter),                *)
(*   - the response normalizer (_parse_checklist_response),                *)
(*   - classification filtering, checklist de-duplication and the          *)
(*     deterministic issue lines,                                          *)
(*   - the two pipeline orchestrators (sequential and graph).              *)
(* Each part has its own specification over the shared variables; the      *)
(* variables a specification does not use stay at their initial value.     *)
(***************************************************************************)
EXTENDS Integers, Sequences, FiniteSets, TLC

VARIABLES
    \* ---- RateLimiter (rate_limiter.py) ----
    elapsed,          \* time() - self.last_refill, in ticks (capped at a minute)
    tpm_tokens,       \* self.tpm_tokens, in 1/TicksPerMinute of a token
    rpm_tokens,       \* self.rpm_tokens, in 1/TicksPerMinute of a request
    semaphore,        \* self.semaphore._value
    pc,               \* where each caller of acquire/release is
    estimated_tokens, \* the estimated_tokens argument of a caller inside acquire
    sleep_left,       \* ticks left of a caller's asyncio.sleep(wait_time)
    granted,          \* history: the acquire calls that returned in the last
                      \* minute, each with its age in ticks and its tokens
    observing,        \* whether the history is kept in this behaviour
    \* ---- classify_types and validate_*_types (agents.py, policies.py) ----
    classification_type, \* "house" (Agent 1) or "room" (Agent 3)
    allowed_types,    \* input_data.allowed_types
    model_types,      \* result.types, the list the model returned
    returned_types,   \* the types of the TypesOutput classify_types returns
    stored_types,     \* house_types / room_types after validate_*_types
    cls_pc,           \* "input", "returned", "stored" or "raised"
    \* ---- ChecklistMergingPolicy._deduplicate_items (policies.py) ----
    items,            \* the item list given to _deduplicate_items
    deduplicated,     \* the list it returns
    dd_pc,            \* "input" or "done"
    \* ---- ResultAggregator._checklist_to_issue_lines (aggregation.py) ----
    prefix,           \* the scope: "house", "room:<id>" or "product:<id>"
    answers,          \* the ChecklistEvaluationOutput
    lines,            \* the issue lines returned
    il_pc,            \* "input" or "done"
    \* ---- AgentsService._parse_checklist_response (agents.py) ----
    expected_items,   \* the batch: the dumps of its AgentChecklistItems
    response,         \* response.content
    outcome,          \* what the call returned, or that it raised
    parse_pc,         \* "input" or "done"
    \* ---- the pipeline (run_agent_pipeline.py, nodes.py, workflow.py) ----
    orchestrator,     \* "sequential" (RunAgentPipelineUseCase) or
                      \* "langgraph" (AgentPipelineGraph)
    rooms_map,        \* rooms_map: for each room, in order, its number of images
    node,             \* the stage or graph node the run is at
    room_cursor,      \* the room the sequential room loop is processing
    in_flight,        \* the stage whose inference call is in progress
    total_batches,    \* evaluate_checklist: the batches of the item list
    batch_count,      \* evaluate_checklist: the batches sent so far
    agent_outcome,    \* whether the agent method returned or raised
    room_results,     \* the rooms whose RoomResult was kept
    failed_rooms,     \* the rooms whose processing raised
    state_error,      \* whether the graph state holds an "error"
    pros_cons,        \* whether Agent 6 produced its ProsConsOutput
    returned_calls,   \* history: the agent calls that returned, each as
                      \* <<stage, room>> (room 0 for Agents 1, 2 and 6)
    \* ---- BaseHouseLoader.get_base_house_checklist (base_house_loader.py) ----
    file_data,        \* the content of house_type_checklist.json
    cache_data,       \* what the cache holds under self._cache_key
    loader_pc,        \* "idle", "cache_get", "cache_set", "returned" or "raised"
    cached_data,      \* what cache.get answered in this call
    loaded_data,      \* data, the checklist read from the file in this call
    loader_result,    \* what the call returned
    file_reads,       \* how often this call opened the file
    write_raised,     \* whether cache.set raised in this call
    \* ---- the HTTP endpoints (routes_scan.py, routes_simulate.py) ----
    endpoint,         \* "scan" (POST /run) or "simulate" (GET)
    request_rooms,    \* request.rooms: for each room, for each of its URLs,
                      \* whether the fetch gives an image
    sim_root,         \* the query parameter root, a string
    resolves_inside,  \* whether the resolved path starts with the demo root
    is_dir,           \* whether the resolved path exists and is a directory
    all_images,       \* the number of images obtained
    http_pc,          \* "idle", "fetching", "collecting", "pipeline" or "answered"
    status_code,      \* the status of the response, 0 before it
    \* ---- the item list of Agents 2 and 4 (nodes.py, run_agent_pipeline.py) ----
    merge_orchestrator,\* "sequential" or "langgraph"
    default_items,    \* checklist["default"]["items"]
    type_items,       \* checklist["house_types"][t]["items"] for each type t
    detected_types,   \* house_types (room_types), the validated answer of Agent 1 (3)
    merged_items,     \* the checklist_items given to evaluate_checklist
    merge_pc,         \* "input" or "done"
    \* ---- the images chosen for one inference call (preprocess.py) ----
    sample_stage,     \* "direct", or the agent the images are chosen for
    sample_images,    \* the images given, each named by its index
    sample_k,         \* the k of the call
    sampled,          \* the images chosen
    sample_pc,        \* "input" or "done"
    \* ---- AgentsService.evaluate_checklist: the batches (agents.py) ----
    ec_items,         \* items, the dumps of input_data.checklist_items
    batch_size,       \* self.settings.CHECKLIST_BATCH_SIZE
    pending_batches,  \* the batches _chunk_list has still to yield
    sent_batches,     \* history: the batch of each inference call made
    batch_results,    \* history: the batch_result of each call
    accumulated_results,\* accumulated_results
    ec_pc,            \* "input", "batching", "returned" or "raised"
    \* ---- AgentsService._normalize_option_value (agents.py) ----
    nov_value,        \* value, a JSON value
    nov_allowed,      \* allowed_options, a list from _normalize_allowed_options or None
    nov_result,       \* what the call returned
    nov_pc,           \* "input" or "done"
    \* ---- Scan requests (RunScanUseCase.execute): each request's pipeline and the governor built for it ----
    scan_pc,          \* where each scan request is: idle, fetching, fetched, executing, finished, failed
    limiters,         \* the RateLimiter objects constructed so far, in order of construction
    scan_limiter      \* the RateLimiter of each request's pipeline (index into limiters), 0 when none

rlVars == <<elapsed, tpm_tokens, rpm_tokens, semaphore, pc,
            estimated_tokens, sleep_left, granted, observing>>

clsVars == <<classification_type, allowed_types, model_types,
             returned_types, stored_types, cls_pc>>

ddVars == <<items, deduplicated, dd_pc>>

ilVars == <<prefix, answers, lines, il_pc>>

parseVars == <<expected_items, response, outcome, parse_pc>>

pipeVars == <<orchestrator, rooms_map, node, room_cursor, in_flight,
              total_batches, batch_count, agent_outcome, room_results,
              failed_rooms, state_error, pros_cons, returned_calls>>

loaderVars == <<file_data, cache_data, loader_pc, cached_data, loaded_data,
                loader_result, file_reads, write_raised>>

httpVars == <<endpoint, request_rooms, sim_root, resolves_inside, is_dir,
              all_images, http_pc, status_code>>

mergeVars == <<merge_orchestrator, default_items, type_items,
               detected_types, merged_items, merge_pc>>

sampleVars == <<sample_stage, sample_images, sample_k, sampled, sample_pc>>

ecVars == <<ec_items, batch_size, pending_batches, sent_batches,
            batch_results, accumulated_results, ec_pc>>

novVars == <<nov_value, nov_allowed, nov_result, nov_pc>>

scanVars == <<scan_pc, limiters, scan_limiter>>

vars == <<rlVars, clsVars, ddVars, ilVars, parseVars, pipeVars, loaderVars,
          httpVars, mergeVars, sampleVars, ecVars, novVars, scanVars>>

\* what the actions of one part leave alone: the variables of the others
notRlVars == <<clsVars, ddVars, ilVars, parseVars, pipeVars, loaderVars,
               httpVars, mergeVars, sampleVars, ecVars, novVars, scanVars>>

notClsVars == <<rlVars, ddVars, ilVars, parseVars, pipeVars, loaderVars,
                httpVars, mergeVars, sampleVars, ecVars, novVars, scanVars>>

notDdVars == <<rlVars, clsVars, ilVars, parseVars, pipeVars, loaderVars,
               httpVars, mergeVars, sampleVars, ecVars, novVars, scanVars>>

notIlVars == <<rlVars, clsVars, ddVars, parseVars, pipeVars, loaderVars,
               httpVars, mergeVars, sampleVars, ecVars, novVars, scanVars>>

notParseVars == <<rlVars, clsVars, ddVars, ilVars, pipeVars, loaderVars,
                  httpVars, mergeVars, sampleVars, ecVars, novVars,
                  scanVars>>

notPipeVars == <<rlVars, clsVars, ddVars, ilVars, parseVars, loaderVars,
                 httpVars, mergeVars, sampleVars, ecVars, novVars,
                 scanVars>>

notLoaderVars == <<rlVars, clsVars, ddVars, ilVars, parseVars, pipeVars,
                   httpVars, mergeVars, sampleVars, ecVars, novVars,
                   scanVars>>

notHttpVars == <<rlVars, clsVars, ddVars, ilVars, parseVars, pipeVars,
                 loaderVars, mergeVars, sampleVars, ecVars, novVars,
                 scanVars>>

notMergeVars == <<rlVars, clsVars, ddVars, ilVars, parseVars, pipeVars,
                  loaderVars, httpVars, sampleVars, ecVars, novVars,
                  scanVars>>

notSampleVars == <<rlVars, clsVars, ddVars, ilVars, parseVars, pipeVars,
                   loaderVars, httpVars, mergeVars, ecVars, novVars,
                   scanVars>>

notEcVars == <<rlVars, clsVars, ddVars, ilVars, parseVars, pipeVars,
               loaderVars, httpVars, mergeVars, sampleVars, novVars,
               scanVars>>

notNovVars == <<rlVars, clsVars, ddVars, ilVars, parseVars, pipeVars,
                loaderVars, httpVars, mergeVars, sampleVars, ecVars,
                scanVars>>

notScanVars == <<rlVars, clsVars, ddVars, ilVars, parseVars, pipeVars,
                 loaderVars, httpVars, mergeVars, sampleVars, ecVars,
                 novVars>>

\* the sequences over S of length at most n
SeqsUpTo(S, n) == UNION {[1..k -> S] : k \in 0..n}

\* the elements of a sequence
Range(s) == {s[i] : i \in 1..Len(s)}

\* reversed(s)
Reverse(s) == [i \in 1..Len(s) |-> s[Len(s) + 1 - i]]

\* the sequences over S without a repeated element, of length at most n
RECURSIVE DistinctSeqsUpTo(_, _)
DistinctSeqsUpTo(S, n) ==
    IF n = 0 THEN {<<>>}
    ELSE {<<>>} \cup UNION {{<<x>> \o t : t \in DistinctSeqsUpTo(S \ {x}, n - 1)} :
                             x \in S}


(***************************************************************************)
(* Small helpers                                                           *)
(***************************************************************************)
Min(a, b) == IF a <= b THEN a ELSE b

Max(a, b) == IF a >= b THEN a ELSE b

CeilDiv(a, b) == (a + b - 1) \div b

RECURSIVE SumSeq(_)
SumSeq(s) == IF s = <<>> THEN 0 ELSE Head(s) + SumSeq(Tail(s))

(***************************************************************************)
(* RateLimiter                                                             *)
(*                                                                         *)
(* Time is discrete: one minute is TicksPerMinute ticks.  The buckets are  *)
(* floats in the code; here they are integers counting 1/TicksPerMinute of *)
(* a token, so that the refill of one tick (capacity / TicksPerMinute      *)
(* tokens) is exactly `capacity' units.  The clock itself is not kept:     *)
(* the code reads it only as time() - last_refill, and a refill after a    *)
(* minute or more fills both buckets whatever the exact time, so `elapsed' *)
(* stops counting at one minute.                                           *)
(*                                                                         *)
(* The callers are asyncio tasks of one event loop: a task runs until it   *)
(* awaits something that is not ready.  semaphore.acquire() with a free    *)
(* slot and `async with self._lock' do not suspend, so a call of acquire   *)
(* runs from its first line to its return or to asyncio.sleep in one step. *)
(***************************************************************************)
TicksPerMinute == 6

NumCallers == 2

tokens_per_minute == 2

requests_per_minute == 2

max_concurrent == 1

Callers == 1..NumCallers

tpm_capacity == tokens_per_minute

rpm_capacity == requests_per_minute

\* one whole token (or request) in bucket units
Unit == TicksPerMinute

\* RateLimiter.__init__
RateLimiterInit ==
    /\ elapsed = 0
    /\ tpm_tokens = tokens_per_minute * Unit
    /\ rpm_tokens = requests_per_minute * Unit
    /\ semaphore = max_concurrent
    /\ pc = [c \in Callers |-> "idle"]
    /\ estimated_tokens = [c \in Callers |-> 0]
    /\ sleep_left = [c \in Callers |-> 0]
    /\ granted = <<>>

\* the variant of the refill without min(capacity, ...)
refill_tpm_Uncapped ==
    IF elapsed <= 0 THEN tpm_tokens ELSE tpm_tokens + elapsed * tpm_capacity

\* RateLimiter._refill_buckets: the value of each bucket after it
\* (last_refill becomes now whenever elapsed > 0, so elapsed is 0 after it)
refill_tpm ==
    IF elapsed <= 0 THEN tpm_tokens
    ELSE Min(tpm_capacity * Unit, tpm_tokens + elapsed * tpm_capacity)

refill_rpm ==
    IF elapsed <= 0 THEN rpm_tokens
    ELSE Min(rpm_capacity * Unit, rpm_tokens + elapsed * rpm_capacity)

\* RateLimiter._calculate_wait_time, on bucket values t (tpm) and r (rpm).
\* The waits are fractions of a second; WaitDen is their common denominator
\* and the result is the numerator of wait_time over WaitDen.
WaitDen == 2 * Unit * tpm_capacity * rpm_capacity

\* the variant without the cap of ten seconds
calculate_wait_time_NoCap(t, r, needed_tokens) ==
    LET tpm_wait == IF t < needed_tokens * Unit
                    THEN (needed_tokens * Unit - t) * 60 * 2 * rpm_capacity
                    ELSE 0
        rpm_wait == IF r < Unit
                    THEN (Unit - r) * 60 * 2 * tpm_capacity
                    ELSE 0
    IN Max(Max(tpm_wait, rpm_wait), WaitDen \div 2)

calculate_wait_time(t, r, needed_tokens) ==
    LET tpm_wait == IF t < needed_tokens * Unit
                    THEN (needed_tokens * Unit - t) * 60 * 2 * rpm_capacity
                    ELSE 0
        rpm_wait == IF r < Unit
                    THEN (Unit - r) * 60 * 2 * tpm_capacity
                    ELSE 0
        half_second == WaitDen \div 2
        ten_seconds == 10 * WaitDen
        wait_time == Max(Max(tpm_wait, rpm_wait), half_second)
    IN Min(wait_time, ten_seconds)

\* asyncio.sleep(wait_time): the number of ticks after which it is over
SleepTicks(wait_num) == CeilDiv(wait_num * TicksPerMinute, 60 * WaitDen)

\* One pass of the while loop of acquire by caller c asking for e tokens,
\* with the semaphore at value sem: under the lock, refill, then either
\* deduct and return or compute the wait and go to sleep.
LoopIteration(c, e, sem) ==
    LET t == refill_tpm
        r == refill_rpm
    IN /\ elapsed' = 0
       /\ semaphore' = sem
       /\ UNCHANGED <<observing, notRlVars>>
       /\ IF t >= e * Unit /\ r >= Unit
          THEN /\ tpm_tokens' = t - e * Unit
               /\ rpm_tokens' = r - Unit
               /\ pc' = [pc EXCEPT ![c] = "acquired"]
               /\ estimated_tokens' = [estimated_tokens EXCEPT ![c] = 0]
               /\ sleep_left' = [sleep_left EXCEPT ![c] = 0]
               /\ granted' = IF observing
                             THEN Append(granted, [age |-> 0, tokens |-> e])
                             ELSE granted
          ELSE /\ tpm_tokens' = t
               /\ rpm_tokens' = r
               /\ pc' = [pc EXCEPT ![c] = "sleeping"]
               /\ estimated_tokens' = [estimated_tokens EXCEPT ![c] = e]
               /\ sleep_left' = [sleep_left EXCEPT ![c] =
                                    SleepTicks(calculate_wait_time(t, r, e))]
               /\ UNCHANGED granted

\* time() advances by one tick
Tick ==
    /\ elapsed' = Min(elapsed + 1, TicksPerMinute)
    /\ sleep_left' = [c \in Callers |-> Max(sleep_left[c] - 1, 0)]
    /\ granted' = LET aged == [i \in 1..Len(granted) |->
                                  [granted[i] EXCEPT !.age = @ + 1]]
                      InWindow(g) == g.age < TicksPerMinute
                  IN SelectSeq(aged, InWindow)
    /\ UNCHANGED <<tpm_tokens, rpm_tokens, semaphore, pc, estimated_tokens,
                   observing, notRlVars>>

\* a mutant of CallAcquire: acquire does not wait for a semaphore slot
CallAcquire_NoSemaphore(c, e) ==
    /\ pc[c] = "idle"
    /\ LoopIteration(c, e, semaphore - 1)

\* A caller calls acquire(e): it takes a semaphore slot and enters the loop,
\* or waits in semaphore.acquire() when no slot is free.
CallAcquire(c, e) ==
    /\ pc[c] = "idle"
    /\ IF semaphore > 0
       THEN LoopIteration(c, e, semaphore - 1)
       ELSE /\ pc' = [pc EXCEPT ![c] = "sem_wait"]
            /\ estimated_tokens' = [estimated_tokens EXCEPT ![c] = e]
            /\ UNCHANGED <<elapsed, tpm_tokens, rpm_tokens, semaphore,
                           sleep_left, granted, observing, notRlVars>>

\* await self.semaphore.acquire() returns to a waiting caller: a slot was
\* released, the caller takes it and enters the loop
SemAcquire(c) ==
    /\ pc[c] = "sem_wait"
    /\ semaphore > 0
    /\ LoopIteration(c, estimated_tokens[c], semaphore - 1)

\* the variant in which a caller gives its slot back before it retries
WakeUp_GivesSlotBack(c) ==
    /\ pc[c] = "sleeping"
    /\ sleep_left[c] = 0
    /\ LoopIteration(c, estimated_tokens[c], semaphore + 1)

\* asyncio.sleep(wait_time) is over: the next pass of the loop
WakeUp(c) ==
    /\ pc[c] = "sleeping"
    /\ sleep_left[c] = 0
    /\ LoopIteration(c, estimated_tokens[c], semaphore)

\* RateLimiter.release, by a caller whose acquire returned
Release(c) ==
    /\ pc[c] = "acquired"
    /\ semaphore' = semaphore + 1
    /\ pc' = [pc EXCEPT ![c] = "idle"]
    /\ UNCHANGED <<elapsed, tpm_tokens, rpm_tokens,
                   estimated_tokens, sleep_left, granted, observing,
                   notRlVars>>

\* The caller's task is cancelled while it waits for the semaphore:
\* asyncio.Semaphore.acquire gives up without taking a slot.
CancelSemWait(c) ==
    /\ pc[c] = "sem_wait"
    /\ pc' = [pc EXCEPT ![c] = "cancelled"]
    /\ estimated_tokens' = [estimated_tokens EXCEPT ![c] = 0]
    /\ UNCHANGED <<elapsed, tpm_tokens, rpm_tokens, semaphore,
                   sleep_left, granted, observing, notRlVars>>

\* The caller's task is cancelled in asyncio.sleep: CancelledError is raised
\* at the await.  It derives from BaseException, so `except Exception' does
\* not catch it and self.semaphore.release() is not called.
CancelSleep(c) ==
    /\ pc[c] = "sleeping"
    /\ pc' = [pc EXCEPT ![c] = "cancelled"]
    /\ estimated_tokens' = [estimated_tokens EXCEPT ![c] = 0]
    /\ sleep_left' = [sleep_left EXCEPT ![c] = 0]
    /\ UNCHANGED <<elapsed, tpm_tokens, rpm_tokens, semaphore, granted,
                   observing, notRlVars>>

RateLimiterNext ==
    \/ Tick
    \/ \E c \in Callers, e \in 1..tokens_per_minute : CallAcquire(c, e)
    \/ \E c \in Callers : SemAcquire(c)
    \/ \E c \in Callers : WakeUp(c)
    \/ \E c \in Callers : Release(c)
    \/ \E c \in Callers : CancelSemWait(c)
    \/ \E c \in Callers : CancelSleep(c)

\* the variables of the governor when it is not the part under study
RateLimiterIdle == RateLimiterInit /\ observing = FALSE

\* RateLimiter(tokens_per_minute, requests_per_minute, max_concurrent) with
\* max_concurrent from 1 up to LiveConcurrent, a slot for every caller
LiveConcurrent == 2

RateLimiterLiveInit ==
    /\ elapsed = 0
    /\ tpm_tokens = tokens_per_minute * Unit
    /\ rpm_tokens = requests_per_minute * Unit
    /\ semaphore \in 1..LiveConcurrent
    /\ pc = [c \in Callers |-> "idle"]
    /\ estimated_tokens = [c \in Callers |-> 0]
    /\ sleep_left = [c \in Callers |-> 0]
    /\ granted = <<>>
    /\ observing = FALSE

\* the governor when no task is cancelled
RateLimiterLiveNext ==
    \/ Tick
    \/ \E c \in Callers, e \in 1..tokens_per_minute : CallAcquire(c, e)
    \/ \E c \in Callers : SemAcquire(c)
    \/ \E c \in Callers : WakeUp(c)
    \/ \E c \in Callers : Release(c)

\* time advances, a task that can run does run, a caller whose acquire
\* returned calls release, and the semaphore wakes its waiters in turn
RateLimiterFairness ==
    /\ WF_vars(Tick)
    /\ \A c \in Callers :
          /\ SF_vars(SemAcquire(c))
          /\ WF_vars(WakeUp(c))
          /\ WF_vars(Release(c))

(***************************************************************************)
(* Classification (Agents 1 and 3): classify_types filters the model's     *)
(* answer to the allowed types; the pipeline then passes the result        *)
(* through validate_house_types / validate_room_types before storing it.   *)
(***************************************************************************)
TypeIds == {"apartment", "villa", "castle"}

MaxAllowedTypes == 2

MaxModelTypes == 3

ClassifyInit ==
    /\ classification_type \in {"house", "room"}
    /\ allowed_types \in SeqsUpTo(TypeIds, MaxAllowedTypes)
    /\ model_types = <<>>
    /\ returned_types = <<>>
    /\ stored_types = <<>>
    /\ cls_pc = "input"

ClassifyIdle ==
    /\ classification_type = "house"
    /\ allowed_types = <<>>
    /\ model_types = <<>>
    /\ returned_types = <<>>
    /\ stored_types = <<>>
    /\ cls_pc = "input"

\* a mutant of FilterToAllowedSet: the model's answer is returned as it is
FilterToAllowedSet_Unfiltered(types, allowed) == types

\* classify_types: allowed_set = set(allowed_types);
\* filtered_types = [t for t in result.types if t in allowed_set]
FilterToAllowedSet(types, allowed) ==
    LET allowed_set == Range(allowed)
        Keep(t) == t \in allowed_set
    IN SelectSeq(types, Keep)

\* validate_house_types: [ht for ht in house_types if ht in allowed_types]
validate_house_types(house_types, allowed) ==
    LET Keep(ht) == \E i \in 1..Len(allowed) : allowed[i] = ht
    IN SelectSeq(house_types, Keep)

\* validate_room_types: [rt for rt in room_types if rt in allowed_types]
validate_room_types(room_types, allowed) ==
    LET Keep(rt) == \E i \in 1..Len(allowed) : allowed[i] = rt
    IN SelectSeq(room_types, Keep)

\* classify_types returns: the model answered with the list `types'
ClassifyTypes(types) ==
    /\ cls_pc = "input"
    /\ model_types' = types
    /\ returned_types' = FilterToAllowedSet(types, allowed_types)
    /\ cls_pc' = "returned"
    /\ UNCHANGED <<classification_type, allowed_types, stored_types,
                   notClsVars>>

\* the model call fails: classify_types logs and re-raises
ClassifyRaises ==
    /\ cls_pc = "input"
    /\ cls_pc' = "raised"
    /\ UNCHANGED <<classification_type, allowed_types, model_types,
                   returned_types, stored_types, notClsVars>>

\* Agent 1: house_types = validate_house_types(output.types, allowed)
ValidateHouseTypes ==
    /\ cls_pc = "returned"
    /\ classification_type = "house"
    /\ stored_types' = validate_house_types(returned_types, allowed_types)
    /\ cls_pc' = "stored"
    /\ UNCHANGED <<classification_type, allowed_types, model_types,
                   returned_types, notClsVars>>

\* Agent 3: room_types = validate_room_types(output.types, allowed)
ValidateRoomTypes ==
    /\ cls_pc = "returned"
    /\ classification_type = "room"
    /\ stored_types' = validate_room_types(returned_types, allowed_types)
    /\ cls_pc' = "stored"
    /\ UNCHANGED <<classification_type, allowed_types, model_types,
                   returned_types, notClsVars>>

ClassifyNext ==
    \/ \E types \in SeqsUpTo(TypeIds, MaxModelTypes) : ClassifyTypes(types)
    \/ ClassifyRaises
    \/ ValidateHouseTypes
    \/ ValidateRoomTypes

(***************************************************************************)
(* Checklist de-duplication.  An item is a dict; here it is its id and its *)
(* position in the input, which stands for the rest of its content.  An    *)
(* item whose id is absent or empty has id NoId.                           *)
(***************************************************************************)
ItemIds == {"a", "b", "c"}

NoId == ""

MaxItems == 5

\* the item lists whose ids are the sequence ids
ItemsWithIds(ids) == [i \in 1..Len(ids) |-> [id |-> ids[i], position |-> i]]

DedupInit ==
    /\ items \in {ItemsWithIds(ids) :
                     ids \in SeqsUpTo(ItemIds \cup {NoId}, MaxItems)}
    /\ deduplicated = <<>>
    /\ dd_pc = "input"

DedupIdle ==
    /\ items = <<>>
    /\ deduplicated = <<>>
    /\ dd_pc = "input"

\* the loop of _deduplicate_items over reversed(items):
\* if item_id and item_id not in seen: deduplicated.append(item); seen.add
RECURSIVE DedupLoop(_, _, _)
DedupLoop(rest, seen, kept) ==
    IF rest = <<>> THEN kept
    ELSE LET item == Head(rest)
             item_id == item.id
         IN IF item_id # NoId /\ item_id \notin seen
            THEN DedupLoop(Tail(rest), seen \cup {item_id}, Append(kept, item))
            ELSE DedupLoop(Tail(rest), seen, kept)

\* a mutant of deduplicate_items: the list is walked forwards, so the
\* first occurrence of an id is the one kept
deduplicate_items_KeepFirst(its) == DedupLoop(its, {}, <<>>)

\* ChecklistMergingPolicy._deduplicate_items
deduplicate_items(its) == Reverse(DedupLoop(Reverse(its), {}, <<>>))

DeduplicateItems ==
    /\ dd_pc = "input"
    /\ deduplicated' = deduplicate_items(items)
    /\ dd_pc' = "done"
    /\ UNCHANGED <<items, notDdVars>>

DedupNext == DeduplicateItems

(***************************************************************************)
(* Issue lines.  A dict is the sequence of its (key, value) pairs in       *)
(* insertion order.  A condition that is None is Null; subitems that are   *)
(* None or {} are the empty sequence (the code tests `if subitems').       *)
(***************************************************************************)
Null == "<null>"

Scopes == {"house", "room:kitchen", "product:kitchen"}

BooleanKeys == {"damage", "functional", "leak"}

MaxBooleans == 2

SubitemKeys == {"tiles", "gutter"}

MaxSubitems == 2

Quality == {"Poor", "Average", "Good", "Excellent", "N/A"}

\* the dicts with at most n keys from Keys and values from Values
DictsUpTo(Keys, Values, n) ==
    UNION {{[i \in 1..Len(ks) |-> <<ks[i], vs[i]>>] :
                vs \in [1..Len(ks) -> Values]} :
           ks \in DistinctSeqsUpTo(Keys, n)}

ConditionalAnswers ==
    [exists : BOOLEAN,
     condition : {Null, "Average", "N/A"},
     subitems : DictsUpTo(SubitemKeys, {"Poor", "N/A"}, MaxSubitems)]

IssueLinesInit ==
    /\ prefix \in Scopes
    /\ answers \in
         [booleans : DictsUpTo(BooleanKeys, BOOLEAN, MaxBooleans),
          categoricals : DictsUpTo({"wall"}, {"Poor", "N/A", "Yes"}, 1),
          conditionals : DictsUpTo({"roof"}, ConditionalAnswers, 1)]
    /\ lines = <<>>
    /\ il_pc = "input"

IssueLinesIdle ==
    /\ prefix = "house"
    /\ answers = [booleans |-> <<>>, categoricals |-> <<>>,
                  conditionals |-> <<>>]
    /\ lines = <<>>
    /\ il_pc = "input"

\* for key, value in answers.booleans.items(): if value is True: append
RECURSIVE BooleanLines(_, _)
BooleanLines(pfx, booleans) ==
    IF booleans = <<>> THEN <<>>
    ELSE LET key == Head(booleans)[1]
             value == Head(booleans)[2]
         IN (IF value = TRUE THEN <<pfx \o ":" \o key \o ":true">> ELSE <<>>)
            \o BooleanLines(pfx, Tail(booleans))

\* a mutant of CategoricalLines: an "N/A" categorical gets a line too
RECURSIVE CategoricalLines_WithNA(_, _)
CategoricalLines_WithNA(pfx, categoricals) ==
    IF categoricals = <<>> THEN <<>>
    ELSE <<pfx \o ":" \o Head(categoricals)[1] \o ":" \o Head(categoricals)[2]>>
         \o CategoricalLines_WithNA(pfx, Tail(categoricals))

\* for key, value in answers.categoricals.items():
\*     if value and value != "N/A": append
RECURSIVE CategoricalLines(_, _)
CategoricalLines(pfx, categoricals) ==
    IF categoricals = <<>> THEN <<>>
    ELSE LET key == Head(categoricals)[1]
             value == Head(categoricals)[2]
         IN (IF value # "" /\ value # "N/A"
             THEN <<pfx \o ":" \o key \o ":" \o value>> ELSE <<>>)
            \o CategoricalLines(pfx, Tail(categoricals))

\* for subkey, subvalue in conditional.subitems.items():
\*     if subvalue and subvalue != "N/A": append
RECURSIVE SubitemLines(_, _, _)
SubitemLines(pfx, key, subitems) ==
    IF subitems = <<>> THEN <<>>
    ELSE LET subkey == Head(subitems)[1]
             subvalue == Head(subitems)[2]
         IN (IF subvalue # "" /\ subvalue # "N/A"
             THEN <<pfx \o ":" \o key \o ":" \o subkey \o ":" \o subvalue>>
             ELSE <<>>)
            \o SubitemLines(pfx, key, Tail(subitems))

\* for key, conditional in answers.conditionals.items(): if exists: ...
RECURSIVE ConditionalLines(_, _)
ConditionalLines(pfx, conditionals) ==
    IF conditionals = <<>> THEN <<>>
    ELSE LET key == Head(conditionals)[1]
             conditional == Head(conditionals)[2]
         IN (IF conditional.exists
             THEN <<pfx \o ":" \o key \o ":exists">>
                  \o (IF conditional.condition # Null /\ conditional.condition # ""
                      THEN <<pfx \o ":" \o key \o ":condition:"
                                 \o conditional.condition>>
                      ELSE <<>>)
                  \o SubitemLines(pfx, key, conditional.subitems)
             ELSE <<>>)
            \o ConditionalLines(pfx, Tail(conditionals))

\* ResultAggregator._checklist_to_issue_lines
checklist_to_issue_lines(pfx, ans) ==
    BooleanLines(pfx, ans.booleans)
    \o CategoricalLines(pfx, ans.categoricals)
    \o ConditionalLines(pfx, ans.conditionals)

ChecklistToIssueLines ==
    /\ il_pc = "input"
    /\ lines' = checklist_to_issue_lines(prefix, answers)
    /\ il_pc' = "done"
    /\ UNCHANGED <<prefix, answers, notIlVars>>

IssueLinesNext == ChecklistToIssueLines

(***************************************************************************)
(* The response normalizer: strings.                                       *)
(*                                                                         *)
(* The option strings and the answers of the model are stripped, unquoted  *)
(* and compared in lower case, so here a string is the sequence of its     *)
(* characters.  None is the empty sequence wherever the code treats None   *)
(* and "" alike (`if not options', `if not candidate', `x or y').          *)
(***************************************************************************)
sPoor == <<"P", "o", "o", "r">>

sAverage == <<"A", "v", "e", "r", "a", "g", "e">>

sGood == <<"G", "o", "o", "d">>

sExcellent == <<"E", "x", "c", "e", "l", "l", "e", "n", "t">>

sNA == <<"N", "/", "A">>

sYes == <<"Y", "e", "s">>

sNo == <<"N", "o">>

sOld == <<"o", "l", "d">>

\* value_objects.Quality = Literal["Poor", "Average", "Good", "Excellent", "N/A"]
QualityLiteral == {sPoor, sAverage, sGood, sExcellent, sNA}

DEFAULT_CONDITION_OPTIONS == <<sPoor, sAverage, sGood, sExcellent, sNA>>

Quoted(str) == <<"\"">> \o str \o <<"\"">>

Padded(str) == <<" ">> \o str \o <<" ", " ">>

\* str.lower(), on the letters that occur
LowerOf ==
    ("A" :> "a") @@ ("D" :> "d") @@ ("E" :> "e") @@ ("G" :> "g")
    @@ ("N" :> "n") @@ ("O" :> "o") @@ ("P" :> "p") @@ ("Y" :> "y")

Lower(str) ==
    [i \in 1..Len(str) |->
        IF str[i] \in DOMAIN LowerOf THEN LowerOf[str[i]] ELSE str[i]]

\* str.strip()
RECURSIVE LStrip(_)
LStrip(str) ==
    IF str # <<>> /\ Head(str) = " " THEN LStrip(Tail(str)) ELSE str

Strip(str) == Reverse(LStrip(Reverse(LStrip(str))))

\* cleaned = opt.strip(); if it starts and ends with '"' and len >= 2:
\* cleaned = cleaned[1:-1].strip()
Cleaned(str) ==
    LET stripped == Strip(str)
    IN IF /\ Len(stripped) >= 2
          /\ stripped[1] = "\""
          /\ stripped[Len(stripped)] = "\""
       THEN Strip(SubSeq(stripped, 2, Len(stripped) - 1))
       ELSE stripped

(***************************************************************************)
(* JSON values: what json.loads returns, and what the item dicts hold.     *)
(* A dict is a function from its keys; a list is only known to be one.     *)
(***************************************************************************)
JNull == [t |-> "null"]

JBool(b) == [t |-> "bool", b |-> b]

JNum(n) == [t |-> "num", n |-> n]

JStr(str) == [t |-> "str", s |-> str]

JList == [t |-> "list"]

JDict(d) == [t |-> "dict", d |-> d]

EmptyDict == <<>>

\* d.get(k, default)
Get(d, k, default) == IF k \in DOMAIN d THEN d[k] ELSE default

\* d[k] = v
Put(d, k, v) == [x \in DOMAIN d \cup {k} |-> IF x = k THEN v ELSE d[x]]

\* bool(v); a list here is a non-empty one
PyBool(v) ==
    CASE v.t = "null" -> FALSE
      [] v.t = "bool" -> v.b
      [] v.t = "num" -> v.n # 0
      [] v.t = "str" -> v.s # <<>>
      [] v.t = "list" -> TRUE
      [] v.t = "dict" -> DOMAIN v.d # {}

\* AgentsService._normalize_allowed_options, on a list of JSON values
RECURSIVE NormalizeOptionsLoop(_, _)
NormalizeOptionsLoop(options, normalized) ==
    IF options = <<>> THEN normalized
    ELSE LET opt == Head(options)
             cleaned == Cleaned(opt.s)
             lower == Lower(cleaned)
         IN IF opt.t # "str" THEN NormalizeOptionsLoop(Tail(options), normalized)
            ELSE IF cleaned # <<>>
                    /\ lower \notin {Lower(item) : item \in Range(normalized)}
            THEN NormalizeOptionsLoop(Tail(options), Append(normalized, cleaned))
            ELSE NormalizeOptionsLoop(Tail(options), normalized)

normalize_allowed_options(options) ==
    IF options = <<>> THEN <<>> ELSE NormalizeOptionsLoop(options, <<>>)

\* the variant without the fallback to the option "N/A"
normalize_option_value_NoNA(value, allowed_options) ==
    LET candidate == IF value.t = "str" THEN Cleaned(value.s) ELSE <<>>
        matches == {i \in 1..Len(allowed_options) :
                       Lower(allowed_options[i]) = Lower(candidate)}
    IN IF allowed_options # <<>>
       THEN IF candidate # <<>> /\ matches # {}
            THEN allowed_options[CHOOSE i \in matches :
                                    \A j \in matches : j <= i]
            ELSE allowed_options[1]
       ELSE IF candidate # <<>> THEN candidate ELSE sNA

\* AgentsService._normalize_option_value
normalize_option_value(value, allowed_options) ==
    LET candidate == IF value.t = "str" THEN Cleaned(value.s) ELSE <<>>
        \* normalized_map = {opt.lower(): opt for opt in allowed_options}:
        \* of two options with the same lower case the later one stays
        matches == {i \in 1..Len(allowed_options) :
                       Lower(allowed_options[i]) = Lower(candidate)}
        na == {i \in 1..Len(allowed_options) :
                  Lower(allowed_options[i]) = Lower(sNA)}
    IN IF allowed_options # <<>>
       THEN IF candidate # <<>> /\ matches # {}
            THEN allowed_options[CHOOSE i \in matches :
                                    \A j \in matches : j <= i]
            ELSE IF na # {}
            THEN allowed_options[CHOOSE i \in na : \A j \in na : i <= j]
            ELSE allowed_options[1]
       ELSE IF candidate # <<>> THEN candidate ELSE sNA

(***************************************************************************)
(* The response normalizer: the text of the response.                      *)
(*                                                                         *)
(* The raw text is a sequence of chunks.  A chunk is                       *)
(*   "space"   white space,                                                *)
(*   "prose"   text without a brace that is not JSON,                      *)
(*   "braced"  text that holds a '{' and after it a '}' and is not JSON,   *)
(*   "cut"     a JSON object cut short: it starts with '{', has no '}',    *)
(*   "object"  a well-formed JSON object, v the dict it denotes,           *)
(*   "value"   a well-formed JSON text without a brace (a list, a string,  *)
(*             a number, null), v the value it denotes.                    *)
(***************************************************************************)
Space == [k |-> "space"]

Prose == [k |-> "prose"]

Braced == [k |-> "braced"]

Cut == [k |-> "cut"]

ObjectText(d) == [k |-> "object", v |-> JDict(d)]

ValueText(v) == [k |-> "value", v |-> v]

\* "{" in chunk, "}" in chunk
HasOpen(chunk) == chunk.k \in {"braced", "cut", "object"}

HasClose(chunk) == chunk.k \in {"braced", "object"}

\* raw_text.strip()
RECURSIVE LStripText(_)
LStripText(text) ==
    IF text # <<>> /\ Head(text).k = "space" THEN LStripText(Tail(text))
    ELSE text

StripText(text) == Reverse(LStripText(Reverse(LStripText(text))))

\* the text of response.content: a str, or a list of parts of which the
\* text parts and the plain strings are joined with "\n"
RECURSIVE JoinTextParts(_)
JoinTextParts(parts) ==
    IF parts = <<>> THEN <<>>
    ELSE LET part == Head(parts)
             rest == JoinTextParts(Tail(parts))
         IN IF part.type \in {"text", "str"}
            THEN part.text \o (IF rest = <<>> THEN <<>> ELSE <<Space>> \o rest)
            ELSE rest

ContentText(content) ==
    IF content.type = "list" THEN JoinTextParts(content.parts)
    ELSE content.text

\* json_text: raw_text[first:last+1] when the text has a '{' and a '}'
ExtractJsonText(raw_text) ==
    LET opens == {i \in 1..Len(raw_text) : HasOpen(raw_text[i])}
        closes == {i \in 1..Len(raw_text) : HasClose(raw_text[i])}
        first == CHOOSE i \in opens : \A j \in opens : i <= j
        last == CHOOSE i \in closes : \A j \in closes : j <= i
    IN IF opens # {} /\ closes # {}
       THEN SubSeq(raw_text, first, last)
       ELSE raw_text

\* json.loads(json_text): the value, or JSONDecodeError.  A text is JSON
\* when it is one well-formed JSON text with white space around it.
json_loads(json_text) ==
    LET doc == StripText(json_text)
    IN IF Len(doc) = 1 /\ doc[1].k \in {"object", "value"}
       THEN [ok |-> TRUE, value |-> doc[1].v]
       ELSE [ok |-> FALSE, value |-> JNull]

\* the first lines of _parse_checklist_response: the text, the JSON in it,
\* and {} when it cannot be parsed
ParsedResponse(content) ==
    LET raw_text == StripText(ContentText(content))
        loaded == json_loads(ExtractJsonText(raw_text))
    IN IF loaded.ok THEN loaded.value ELSE JDict(EmptyDict)

\* json.loads raised JSONDecodeError
IsUnparseable(content) ==
    ~json_loads(ExtractJsonText(StripText(ContentText(content)))).ok

(***************************************************************************)
(* The response normalizer: _parse_checklist_response.                     *)
(*                                                                         *)
(* An expected item is the dump of an AgentChecklistItem: id, type,        *)
(* options (a list of strings or None) and subitems (a list of dicts or    *)
(* None); it has no key "condition_options".  The result maps are          *)
(* functions from ids.                                                     *)
(***************************************************************************)
\* ConditionalAnswer(exists=..., condition=..., subitems=...): pydantic
\* checks condition and every subitem value against the Literal Quality
IsValidConditionalAnswer(answer) ==
    /\ answer.condition \in QualityLiteral
    /\ \A k \in DOMAIN answer.subitems : answer.subitems[k] \in QualityLiteral

\* the subitems of an item, each with its options normalized
NormalizedSubitemMetas(subitems) ==
    [i \in 1..Len(subitems) |->
        [id |-> subitems[i].id,
         options |-> normalize_allowed_options(subitems[i].options)]]

\* expected_map, built item by item; an item without an id is skipped
RECURSIVE ExpectedMapLoop(_, _)
ExpectedMapLoop(expected, expected_map) ==
    IF expected = <<>> THEN expected_map
    ELSE LET raw_item == Head(expected)
             normalized_item ==
                 [type |-> raw_item.type,
                  options |-> normalize_allowed_options(raw_item.options),
                  \* raw_item.get("condition_options") is None
                  condition_options |-> normalize_allowed_options(<<>>),
                  subitems |-> NormalizedSubitemMetas(raw_item.subitems)]
         IN IF raw_item.id = ""
            THEN ExpectedMapLoop(Tail(expected), expected_map)
            ELSE ExpectedMapLoop(Tail(expected),
                                 Put(expected_map, raw_item.id, normalized_item))

ExpectedMap(expected) == ExpectedMapLoop(expected, EmptyDict)

\* condition_options or options or DEFAULT_CONDITION_OPTIONS
ConditionAllowed(item) ==
    IF item.condition_options # <<>> THEN item.condition_options
    ELSE IF item.options # <<>> THEN item.options
    ELSE DEFAULT_CONDITION_OPTIONS

\* the variant that leaves out the subitems the response does not hold
RECURSIVE NormalizedSubitems_NoDefault(_, _, _, _)
NormalizedSubitems_NoDefault(sub_metas, subitem_map, condition_allowed, normalized) ==
    IF sub_metas = <<>> THEN normalized
    ELSE LET sub_meta == Head(sub_metas)
             sub_id == sub_meta.id
             sub_allowed == IF sub_meta.options # <<>> THEN sub_meta.options
                            ELSE condition_allowed
         IN IF sub_id = "" \/ sub_id \notin DOMAIN subitem_map
            THEN NormalizedSubitems_NoDefault(Tail(sub_metas), subitem_map,
                                              condition_allowed, normalized)
            ELSE NormalizedSubitems_NoDefault(Tail(sub_metas), subitem_map,
                     condition_allowed,
                     Put(normalized, sub_id,
                         normalize_option_value(subitem_map[sub_id],
                                                sub_allowed)))

\* the loop over the declared subitems, normalizing the value each has in
\* subitem_map (None when it has none)
RECURSIVE NormalizedSubitems(_, _, _, _)
NormalizedSubitems(sub_metas, subitem_map, condition_allowed, normalized) ==
    IF sub_metas = <<>> THEN normalized
    ELSE LET sub_meta == Head(sub_metas)
             sub_id == sub_meta.id
             sub_allowed == IF sub_meta.options # <<>> THEN sub_meta.options
                            ELSE condition_allowed
         IN IF sub_id = ""
            THEN NormalizedSubitems(Tail(sub_metas), subitem_map,
                                    condition_allowed, normalized)
            ELSE NormalizedSubitems(Tail(sub_metas), subitem_map,
                     condition_allowed,
                     Put(normalized, sub_id,
                         normalize_option_value(Get(subitem_map, sub_id, JNull),
                                                sub_allowed)))

\* one entry v of the "conditionals" of the response, for the item item_meta
ConditionalOfResponse(v, item_meta) ==
    LET condition_allowed == ConditionAllowed(item_meta)
        raw_subitems == Get(v, "subitems", JNull)
        subitem_map == IF raw_subitems.t = "dict" THEN raw_subitems.d
                       ELSE EmptyDict
    IN [exists |-> PyBool(Get(v, "exists", JBool(FALSE))),
        condition |-> normalize_option_value(Get(v, "condition", JNull),
                                             condition_allowed),
        subitems |-> NormalizedSubitems(item_meta.subitems, subitem_map,
                                        condition_allowed, EmptyDict)]

\* the three maps after `if isinstance(parsed, dict):'
ResponseBooleans(parsed, expected_ids) ==
    LET booleans == Get(parsed.d, "booleans", JDict(EmptyDict))
    IN IF parsed.t = "dict" /\ booleans.t = "dict"
       THEN [k \in DOMAIN booleans.d \cap expected_ids |->
                PyBool(booleans.d[k])]
       ELSE EmptyDict

ResponseCategoricals(parsed, expected_map) ==
    LET categoricals == Get(parsed.d, "categoricals", JDict(EmptyDict))
    IN IF parsed.t = "dict" /\ categoricals.t = "dict"
       THEN [k \in DOMAIN categoricals.d \cap DOMAIN expected_map |->
                normalize_option_value(categoricals.d[k],
                                       expected_map[k].options)]
       ELSE EmptyDict

ResponseConditionals(parsed, expected_map) ==
    LET conditionals == Get(parsed.d, "conditionals", JDict(EmptyDict))
    IN IF parsed.t = "dict" /\ conditionals.t = "dict"
       THEN [k \in {x \in DOMAIN conditionals.d \cap DOMAIN expected_map :
                       conditionals.d[x].t = "dict"} |->
                ConditionalOfResponse(conditionals.d[k].d, expected_map[k])]
       ELSE EmptyDict

\* the defaults loop, for one conditional item: the ConditionalAnswer built
\* from the existing one, or from nothing
ConditionalWithDefaults(item, conditionals, item_id) ==
    LET has_existing == item_id \in DOMAIN conditionals
        existing == conditionals[item_id]
        condition_allowed == ConditionAllowed(item)
        existing_condition == IF has_existing THEN JStr(existing.condition)
                              ELSE JNull
        existing_subitems ==
            IF has_existing
            THEN [k \in DOMAIN existing.subitems |-> JStr(existing.subitems[k])]
            ELSE EmptyDict
    IN [exists |-> IF has_existing THEN existing.exists ELSE FALSE,
        condition |-> normalize_option_value(existing_condition,
                                             condition_allowed),
        subitems |-> NormalizedSubitems(item.subitems, existing_subitems,
                                        condition_allowed, EmptyDict)]

IdsOfType(expected_map, type) ==
    {k \in DOMAIN expected_map : expected_map[k].type = type}

Raised(error) ==
    [raised |-> TRUE, error |-> error, booleans |-> EmptyDict,
     categoricals |-> EmptyDict, conditionals |-> EmptyDict]

\* AgentsService._parse_checklist_response, from the parsed response on
NormalizeResponse(parsed, expected) ==
    LET expected_map == ExpectedMap(expected)
        booleans == ResponseBooleans(parsed, DOMAIN expected_map)
        categoricals == ResponseCategoricals(parsed, expected_map)
        conditionals == ResponseConditionals(parsed, expected_map)
        bool_ids == IdsOfType(expected_map, "boolean")
        cat_ids == IdsOfType(expected_map, "categorical")
        cond_ids == IdsOfType(expected_map, "conditional")
        with_defaults ==
            [booleans |->
                [k \in DOMAIN booleans \cup bool_ids |->
                    IF k \in DOMAIN booleans THEN booleans[k] ELSE FALSE],
             categoricals |->
                [k \in DOMAIN categoricals \cup cat_ids |->
                    IF k \in cat_ids
                    THEN normalize_option_value(
                             IF k \in DOMAIN categoricals
                             THEN JStr(categoricals[k]) ELSE JNull,
                             expected_map[k].options)
                    ELSE categoricals[k]],
             conditionals |->
                [k \in DOMAIN conditionals \cup cond_ids |->
                    IF k \in cond_ids
                    THEN ConditionalWithDefaults(expected_map[k],
                                                 conditionals, k)
                    ELSE conditionals[k]]]
    IN IF \/ \E k \in DOMAIN conditionals :
                ~IsValidConditionalAnswer(conditionals[k])
          \/ \E k \in cond_ids :
                ~IsValidConditionalAnswer(with_defaults.conditionals[k])
       THEN Raised("ValidationError")
       ELSE [raised |-> FALSE, error |-> "",
             booleans |-> with_defaults.booleans,
             categoricals |-> with_defaults.categoricals,
             conditionals |-> with_defaults.conditionals]

\* AgentsService._parse_checklist_response
parse_checklist_response(content, expected) ==
    NormalizeResponse(ParsedResponse(content), expected)

(***************************************************************************)
(* The batches and the responses _parse_checklist_response is run on.      *)
(***************************************************************************)
\* the ids of the items of a batch, by position
BatchIds == <<"a", "b">>

NoSubitems == <<>>

\* the items a batch is made of (their id is given by their position)
ItemTemplates ==
    << [type |-> "boolean", options |-> <<>>, subitems |-> NoSubitems],
       [type |-> "categorical",
        options |-> <<JStr(Padded(sPoor)), JStr(Quoted(sGood)),
                      JStr(Lower(sGood)), JStr(sNA)>>,
        subitems |-> NoSubitems],
       [type |-> "categorical", options |-> <<JStr(sYes), JStr(sNo)>>,
        subitems |-> NoSubitems],
       [type |-> "categorical", options |-> <<>>, subitems |-> NoSubitems],
       [type |-> "conditional", options |-> <<>>,
        subitems |-> << [id |-> "s1",
                         options |-> <<JStr(sPoor), JNum(1), JStr(sGood),
                                       JStr(Lower(sNA))>>],
                        [id |-> "", options |-> <<>>],
                        [id |-> "s2", options |-> <<>>] >>],
       [type |-> "conditional", options |-> <<JStr(sYes), JStr(sNo)>>,
        subitems |-> << [id |-> "s1", options |-> <<>>] >>],
       [type |-> "text", options |-> <<>>, subitems |-> NoSubitems],
       [type |-> "conditional", options |-> <<>>,
        subitems |-> << [id |-> "s1",
                         options |-> <<JStr(sPoor), JStr(sGood),
                                       JStr(sNA)>>] >>] >>

ItemOf(template, id) ==
    [id |-> id, type |-> template.type, options |-> template.options,
     subitems |-> template.subitems]

\* the batches: one or two items with the ids of BatchIds, or an item
\* whose id is empty
Batches ==
    {<<ItemOf(ItemTemplates[i], BatchIds[1])>> : i \in DOMAIN ItemTemplates}
    \cup {<<ItemOf(ItemTemplates[i], BatchIds[1]),
            ItemOf(ItemTemplates[j], BatchIds[2])>> :
             i \in DOMAIN ItemTemplates, j \in DOMAIN ItemTemplates}
    \cup {<<ItemOf(ItemTemplates[1], "")>>}

\* what the model may put under "booleans", "categoricals", "conditionals"
\* (NoKey: the key is absent)
NoKey == [t |-> "absent"]

BooleansSections ==
    { NoKey, JList,
      JDict(("a" :> JBool(TRUE)) @@ ("zz" :> JBool(TRUE))),
      JDict(("a" :> JStr(sNo)) @@ ("b" :> JNum(0))) }

CategoricalsSections ==
    { NoKey, JNull,
      JDict(("a" :> JStr(Lower(sGood))) @@ ("b" :> JStr(Padded(Quoted(sPoor))))),
      JDict(("a" :> JStr(sOld)) @@ ("zz" :> JStr(sGood))),
      JDict("b" :> JNum(7)) }

ConditionalsSections ==
    { NoKey, JStr(sOld),
      JDict("a" :> JList),
      JDict("a" :> JDict(("exists" :> JBool(TRUE))
                         @@ ("condition" :> JStr(Lower(sGood)))
                         @@ ("subitems" :> JDict(("s1" :> JStr(Lower(sPoor)))
                                                 @@ ("s9" :> JStr(sGood)))))),
      JDict(("a" :> JDict(("exists" :> JStr(sYes))
                          @@ ("condition" :> JNull)))
            @@ ("b" :> JDict(("exists" :> JNum(0))
                             @@ ("subitems" :> JList)))),
      JDict("b" :> JDict(("condition" :> JStr(sExcellent))
                         @@ ("subitems" :> JDict(("s1" :> JStr(sOld))
                                                 @@ ("s2" :> JStr(sAverage)))))) }

\* the JSON object with the given sections
ObjectWith(booleans, categoricals, conditionals) ==
    LET sections == ("booleans" :> booleans) @@ ("categoricals" :> categoricals)
                    @@ ("conditionals" :> conditionals)
    IN [k \in {x \in DOMAIN sections : sections[x] # NoKey} |-> sections[k]]

ResponseObjects ==
    {ObjectWith(b, c, d) : b \in BooleansSections, c \in CategoricalsSections,
                           d \in ConditionalsSections}

\* the texts of a response: the object alone, inside prose, after prose
\* with braces of its own; and texts without an object
ResponseTexts ==
    {<<ObjectText(o)>> : o \in ResponseObjects}
    \cup {<<Space, Prose, ObjectText(o), Space, Prose>> : o \in ResponseObjects}
    \cup {<<Braced, Space, ObjectText(o)>> : o \in ResponseObjects}
    \cup { <<>>, <<Prose>>, <<Cut>>, <<Prose, Cut>>,
           <<ValueText(JList)>>, <<Space, ValueText(JNull), Space>>,
           <<Prose, ValueText(JList)>>,
           <<ObjectText(EmptyDict), ObjectText(EmptyDict)>> }

\* response.content: a str, or a list of parts
ResponseContents ==
    {[type |-> "str", text |-> text] : text \in ResponseTexts}
    \cup {[type |-> "list",
           parts |-> <<[type |-> "image_url"], [type |-> "text", text |-> text]>>] :
             text \in ResponseTexts}

\* no outcome yet
NoOutcome ==
    [raised |-> FALSE, error |-> "", booleans |-> EmptyDict,
     categoricals |-> EmptyDict, conditionals |-> EmptyDict]

ParseInit ==
    /\ expected_items \in Batches
    /\ response \in ResponseContents
    /\ outcome = NoOutcome
    /\ parse_pc = "input"

ParseIdle ==
    /\ expected_items = <<>>
    /\ response = [type |-> "str", text |-> <<>>]
    /\ outcome = NoOutcome
    /\ parse_pc = "input"

ParseChecklistResponse ==
    /\ parse_pc = "input"
    /\ outcome' = parse_checklist_response(response, expected_items)
    /\ parse_pc' = "done"
    /\ UNCHANGED <<expected_items, response, notParseVars>>

ParseNext == ParseChecklistResponse

(***************************************************************************)
(* The pipeline.  Two orchestrators run the six agents:                    *)
(*   "sequential"  RunAgentPipelineUseCase.execute, one stage after the    *)
(*                 other, the rooms in a for loop;                         *)
(*   "langgraph"   AgentPipelineGraph.execute, four nodes on linear edges, *)
(*                 the rooms as tasks of one asyncio.gather.               *)
(* The agent methods take (input_data, cost_manager).  The sequential      *)
(* orchestrator calls them with these two arguments.  The nodes call them  *)
(* with three, (input, self.cost_manager, None), so that in the graph      *)
(* every call of an agent method raises TypeError before its first line.   *)
(*                                                                         *)
(* Neither orchestrator calls RateLimiter.acquire or release: the graph    *)
(* builds a RateLimiter and hands it to the nodes, which keep it in        *)
(* self.rate_limiter and never use it; the sequential use case has none.   *)
(* So every action here leaves the governor's variables alone.             *)
(*                                                                         *)
(* A room is its position in rooms_map; rooms_map gives its image count.   *)
(* What an inference call answers is not kept: it returns or it raises.    *)
(***************************************************************************)
NumRooms == 3
MaxRoomImages == 1
MaxBatches == 2

PipelineInit ==
    /\ orchestrator \in {"sequential", "langgraph"}
    /\ rooms_map \in [1..NumRooms -> 0..MaxRoomImages]
    /\ node = "start"
    /\ room_cursor = 0
    /\ in_flight = Null
    /\ total_batches = 0
    /\ batch_count = 0
    /\ agent_outcome = Null
    /\ room_results = <<>>
    /\ failed_rooms = {}
    /\ state_error = FALSE
    /\ pros_cons = FALSE
    /\ returned_calls = {}

PipelineIdle ==
    /\ orchestrator = "sequential"
    /\ rooms_map = [r \in 1..NumRooms |-> 0]
    /\ node = "start"
    /\ room_cursor = 0
    /\ in_flight = Null
    /\ total_batches = 0
    /\ batch_count = 0
    /\ agent_outcome = Null
    /\ room_results = <<>>
    /\ failed_rooms = {}
    /\ state_error = FALSE
    /\ pros_cons = FALSE
    /\ returned_calls = {}

\* the room loop, were it not to skip the rooms without images
NextRoom_NoSkip(r) == IF r < NumRooms THEN r + 1 ELSE 0

\* `for room_id, room_images in rooms_map.items(): if not room_images:
\* continue': the first room after r that has an image, 0 when the loop ends
NextRoom(r) ==
    IF \E q \in (r + 1)..NumRooms : rooms_map[q] > 0
    THEN CHOOSE q \in (r + 1)..NumRooms :
             /\ rooms_map[q] > 0
             /\ \A k \in (r + 1)..(q - 1) : rooms_map[k] = 0
    ELSE 0

(* ---- the agent methods, as the sequential orchestrator enters them ---- *)

\* Agents 1 and 3: one inference call, then the result or the exception
classify_types(stage) ==
    /\ node = stage
    /\ agent_outcome = Null
    /\ \/ /\ in_flight = Null
          /\ in_flight' = stage
          /\ UNCHANGED <<agent_outcome, returned_calls>>
       \/ /\ in_flight = stage
          /\ in_flight' = Null
          /\ \/ /\ agent_outcome' = "returned"
                /\ returned_calls' = returned_calls \cup {<<stage, room_cursor>>}
             \/ /\ agent_outcome' = "raised"
                /\ UNCHANGED returned_calls
    /\ UNCHANGED <<orchestrator, rooms_map, node, room_cursor, total_batches,
                   batch_count, room_results, failed_rooms, state_error,
                   pros_cons, notPipeVars>>

\* Agents 2, 4 and 5: one inference call per batch; the method returns after
\* the last batch and raises when a call or the parsing of its answer raises
evaluate_checklist(stage) ==
    /\ node = stage
    /\ agent_outcome = Null
    /\ \/ /\ in_flight = Null
          /\ batch_count < total_batches
          /\ in_flight' = stage
          /\ batch_count' = batch_count + 1
          /\ UNCHANGED <<agent_outcome, returned_calls>>
       \/ /\ in_flight = stage
          /\ in_flight' = Null
          /\ UNCHANGED <<batch_count, agent_outcome, returned_calls>>
       \/ /\ in_flight = stage
          /\ in_flight' = Null
          /\ agent_outcome' = "raised"
          /\ UNCHANGED <<batch_count, returned_calls>>
       \/ /\ in_flight = Null
          /\ batch_count = total_batches
          /\ agent_outcome' = "returned"
          /\ returned_calls' = returned_calls \cup {<<stage, room_cursor>>}
          /\ UNCHANGED <<in_flight, batch_count>>
    /\ UNCHANGED <<orchestrator, rooms_map, node, room_cursor, total_batches,
                   room_results, failed_rooms, state_error, pros_cons,
                   notPipeVars>>

\* Agent 6: one inference call on the text model
analyze_pros_cons ==
    /\ node = "agent6"
    /\ agent_outcome = Null
    /\ \/ /\ in_flight = Null
          /\ in_flight' = "agent6"
          /\ UNCHANGED <<agent_outcome, returned_calls>>
       \/ /\ in_flight = "agent6"
          /\ in_flight' = Null
          /\ \/ /\ agent_outcome' = "returned"
                /\ returned_calls' = returned_calls \cup {<<"agent6", 0>>}
             \/ /\ agent_outcome' = "raised"
                /\ UNCHANGED returned_calls
    /\ UNCHANGED <<orchestrator, rooms_map, node, room_cursor, total_batches,
                   batch_count, room_results, failed_rooms, state_error,
                   pros_cons, notPipeVars>>

(* ---- RunAgentPipelineUseCase.execute: the sequential orchestrator ---- *)

\* execute, were it to start Agent 2 without waiting for Agent 1
execute_house_SkipsAgent1 ==
    /\ orchestrator = "sequential"
    /\ node = "start"
    /\ node' = "agent2"
    /\ total_batches' \in 0..MaxBatches
    /\ batch_count' = 0
    /\ UNCHANGED <<orchestrator, rooms_map, room_cursor, in_flight,
                   agent_outcome, room_results, failed_rooms, state_error,
                   pros_cons, returned_calls, notPipeVars>>

\* Agent 1, then Agent 2 on the merged house items
execute_house ==
    /\ orchestrator = "sequential"
    /\ \/ /\ node = "start"
          /\ node' = "agent1"
          /\ UNCHANGED <<agent_outcome, total_batches, batch_count>>
       \/ /\ node = "agent1"
          /\ agent_outcome = "returned"
          /\ node' = "agent2"
          /\ agent_outcome' = Null
          /\ total_batches' \in 0..MaxBatches
          /\ batch_count' = 0
    /\ UNCHANGED <<orchestrator, rooms_map, room_cursor, in_flight,
                   room_results, failed_rooms, state_error, pros_cons,
                   returned_calls, notPipeVars>>

\* the room loop: Agents 3, 4 and 5 for each room that has images, then the
\* RoomResult is appended; nothing in the loop catches an exception
execute_rooms ==
    /\ orchestrator = "sequential"
    /\ agent_outcome = "returned"
    /\ agent_outcome' = Null
    /\ \/ /\ node = "agent2"
          /\ room_cursor' = NextRoom(0)
          /\ node' = IF NextRoom(0) = 0 THEN "agent6" ELSE "agent3"
          /\ UNCHANGED <<total_batches, batch_count, room_results>>
       \/ /\ node = "agent3"
          /\ node' = "agent4"
          /\ total_batches' \in 0..MaxBatches
          /\ batch_count' = 0
          /\ UNCHANGED <<room_cursor, room_results>>
       \/ /\ node = "agent4"
          /\ node' = "agent5"
          /\ total_batches' \in 0..MaxBatches
          /\ batch_count' = 0
          /\ UNCHANGED <<room_cursor, room_results>>
       \/ /\ node = "agent5"
          /\ room_results' = Append(room_results, room_cursor)
          /\ room_cursor' = NextRoom(room_cursor)
          /\ node' = IF NextRoom(room_cursor) = 0 THEN "agent6" ELSE "agent3"
          /\ UNCHANGED <<total_batches, batch_count>>
    /\ UNCHANGED <<orchestrator, rooms_map, in_flight, failed_rooms,
                   state_error, pros_cons, returned_calls, notPipeVars>>

\* Agent 6 returned: the HouseResult is built and returned
execute_finish ==
    /\ orchestrator = "sequential"
    /\ node = "agent6"
    /\ agent_outcome = "returned"
    /\ agent_outcome' = Null
    /\ pros_cons' = TRUE
    /\ node' = "returned"
    /\ UNCHANGED <<orchestrator, rooms_map, room_cursor, in_flight,
                   total_batches, batch_count, room_results, failed_rooms,
                   state_error, returned_calls, notPipeVars>>

\* execute, were it to answer an exception with what it has so far
execute_raise_ReturnsPartial ==
    /\ orchestrator = "sequential"
    /\ agent_outcome = "raised"
    /\ agent_outcome' = Null
    /\ failed_rooms' = IF node \in {"agent3", "agent4", "agent5"}
                       THEN {room_cursor} ELSE {}
    /\ node' = "returned"
    /\ UNCHANGED <<orchestrator, rooms_map, room_cursor, in_flight,
                   total_batches, batch_count, room_results, state_error,
                   pros_cons, returned_calls, notPipeVars>>

\* `except Exception as e: ... raise' around the whole body of execute
execute_raise ==
    /\ orchestrator = "sequential"
    /\ agent_outcome = "raised"
    /\ agent_outcome' = Null
    /\ failed_rooms' = IF node \in {"agent3", "agent4", "agent5"}
                       THEN {room_cursor} ELSE {}
    /\ node' = "raised"
    /\ UNCHANGED <<orchestrator, rooms_map, room_cursor, in_flight,
                   total_batches, batch_count, room_results, state_error,
                   pros_cons, returned_calls, notPipeVars>>

(* ---- AgentPipelineGraph and PipelineNodes: the graph orchestrator ---- *)

\* node agent1_classify_house: classify_types(input, cost_manager, None)
\* raises TypeError, which `except Exception' turns into {"error": str(e)}
classify_house_types ==
    /\ node = "agent1_classify_house"
    /\ state_error' = TRUE
    /\ node' = "agent2_house_checklist"
    /\ UNCHANGED <<orchestrator, rooms_map, room_cursor, in_flight,
                   total_batches, batch_count, agent_outcome, room_results,
                   failed_rooms, pros_cons, returned_calls, notPipeVars>>

\* node agent2_house_checklist: evaluate_checklist(input, cost_manager, None)
\* raises TypeError all the same
evaluate_house_checklist ==
    /\ node = "agent2_house_checklist"
    /\ state_error' = TRUE
    /\ node' = "process_rooms_parallel"
    /\ UNCHANGED <<orchestrator, rooms_map, room_cursor, in_flight,
                   total_batches, batch_count, agent_outcome, room_results,
                   failed_rooms, pros_cons, returned_calls, notPipeVars>>

\* the task of one room: it raises at its first agent call (Agent 3), so
\* what asyncio.gather(return_exceptions=True) collects for it is the error
process_single_room(r) == "TypeError"

\* node process_rooms_parallel: a task per room that has images; the results
\* that are exceptions are logged and left out of room_results
process_rooms_parallel ==
    /\ node = "process_rooms_parallel"
    /\ LET room_tasks == SelectSeq([r \in 1..NumRooms |-> r],
                                   LAMBDA r : rooms_map[r] > 0)
           valid_results == SelectSeq(room_tasks,
                               LAMBDA r : process_single_room(r) # "TypeError")
       IN  /\ room_results' = valid_results
           /\ failed_rooms' = {r \in Range(room_tasks) :
                                  process_single_room(r) = "TypeError"}
    /\ node' = "agent6_pros_cons"
    /\ UNCHANGED <<orchestrator, rooms_map, room_cursor, in_flight,
                   total_batches, batch_count, agent_outcome, state_error,
                   pros_cons, returned_calls, notPipeVars>>

\* node agent6_pros_cons: house_answers is still the {} of the initial state,
\* so generate_summary raises AttributeError; were it to pass,
\* analyze_pros_cons(input, cost_manager, None) raises TypeError
node_analyze_pros_cons ==
    /\ node = "agent6_pros_cons"
    /\ state_error' = TRUE
    /\ node' = "END"
    /\ UNCHANGED <<orchestrator, rooms_map, room_cursor, in_flight,
                   total_batches, batch_count, agent_outcome, room_results,
                   failed_rooms, pros_cons, returned_calls, notPipeVars>>

\* AgentPipelineGraph.execute: runs the graph from its entry point and, when
\* the final state holds an error, raises RuntimeError("Pipeline failed: ...")
workflow_execute ==
    /\ orchestrator = "langgraph"
    /\ \/ /\ node = "start"
          /\ node' = "agent1_classify_house"
       \/ /\ node = "END"
          /\ node' = IF state_error THEN "raised" ELSE "returned"
    /\ UNCHANGED <<orchestrator, rooms_map, room_cursor, in_flight,
                   total_batches, batch_count, agent_outcome, room_results,
                   failed_rooms, state_error, pros_cons, returned_calls, notPipeVars>>

PipelineNext ==
    \/ \E stage \in {"agent1", "agent3"} : classify_types(stage)
    \/ \E stage \in {"agent2", "agent4", "agent5"} : evaluate_checklist(stage)
    \/ analyze_pros_cons
    \/ execute_house
    \/ execute_rooms
    \/ execute_finish
    \/ execute_raise
    \/ classify_house_types
    \/ evaluate_house_checklist
    \/ process_rooms_parallel
    \/ node_analyze_pros_cons
    \/ workflow_execute

(***************************************************************************)
(* The checklist loaders.  BaseHouseLoader.get_base_house_checklist and    *)
(* BaseRoomsLoader.get_base_room_checklist have the same body, each with   *)
(* its own file and cache key; the model is of one of them.                *)
(*                                                                         *)
(* A checklist is its version (which stands for its items) and whether it  *)
(* has its "default" and "<kind>_types" sections.  The same record, with   *)
(* another kind, stands for what is not a checklist: no file ("missing"),  *)
(* a file that is not a JSON object ("not_an_object"), None ("none") and   *)
(* an exception of the cache ("raised").  The cache is the RedisCache the  *)
(* loader is given: get answers what was set under the key, or None, or    *)
(* raises; set stores the value or raises.  The loader suspends at its two *)
(* awaits, cache.get and cache.set; the file is read in between.           *)
(***************************************************************************)
MaxVersions == 2

NotChecklist(kind) ==
    [kind |-> kind, version |-> 0, has_default |-> FALSE, has_types |-> FALSE]

FileContents ==
    {NotChecklist("missing"), NotChecklist("not_an_object")}
        \cup [kind : {"dict"}, version : 1..MaxVersions,
              has_default : BOOLEAN, has_types : BOOLEAN]

\* `if "default" not in data: data["default"] = {"items": []}' and the same
\* for the types section
WithSections(d) == [d EXCEPT !.has_default = TRUE, !.has_types = TRUE]

\* a fresh deployment: no data file yet, an empty cache, no call made
LoaderInit ==
    /\ file_data = NotChecklist("missing")
    /\ cache_data = NotChecklist("none")
    /\ loader_pc = "idle"
    /\ cached_data = NotChecklist("none")
    /\ loaded_data = NotChecklist("none")
    /\ loader_result = NotChecklist("none")
    /\ file_reads = 0
    /\ write_raised = FALSE

\* the call, up to `await self.cache.get(self._cache_key)'
get_base_house_checklist ==
    /\ loader_pc \in {"idle", "returned", "raised"}
    /\ loader_pc' = "cache_get"
    /\ cached_data' = NotChecklist("none")
    /\ loaded_data' = NotChecklist("none")
    /\ loader_result' = NotChecklist("none")
    /\ file_reads' = 0
    /\ write_raised' = FALSE
    /\ UNCHANGED <<file_data, cache_data, notLoaderVars>>

\* cache.get answers or raises: a value that is not None is returned; else
\* the file is read, checked and completed, up to `await self.cache.set(...)'
cache_get_returns ==
    /\ loader_pc = "cache_get"
    /\ \E answer \in {cache_data, NotChecklist("raised")} :
          /\ cached_data' = answer
          /\ IF answer.kind = "dict"
             THEN /\ loader_result' = answer
                  /\ loader_pc' = "returned"
                  /\ UNCHANGED <<loaded_data, file_reads>>
             ELSE IF file_data.kind = "dict"
             THEN /\ loaded_data' = WithSections(file_data)
                  /\ file_reads' = 1
                  /\ loader_pc' = "cache_set"
                  /\ UNCHANGED loader_result
             ELSE /\ file_reads' = IF file_data.kind = "missing" THEN 0 ELSE 1
                  /\ loader_pc' = "raised"
                  /\ UNCHANGED <<loaded_data, loader_result>>
    /\ UNCHANGED <<file_data, cache_data, write_raised, notLoaderVars>>

\* the loader, were it to let an exception of cache.set reach the caller
cache_set_returns_Propagates ==
    /\ loader_pc = "cache_set"
    /\ \/ /\ cache_data' = loaded_data
          /\ loader_result' = loaded_data
          /\ loader_pc' = "returned"
          /\ UNCHANGED write_raised
       \/ /\ write_raised' = TRUE
          /\ loader_pc' = "raised"
          /\ UNCHANGED <<cache_data, loader_result>>
    /\ UNCHANGED <<file_data, cached_data, loaded_data, file_reads,
                   notLoaderVars>>

\* cache.set stores the data or raises (`except Exception' logs a warning);
\* either way the data read from the file is returned
cache_set_returns ==
    /\ loader_pc = "cache_set"
    /\ \/ /\ cache_data' = loaded_data
          /\ UNCHANGED write_raised
       \/ /\ write_raised' = TRUE
          /\ UNCHANGED cache_data
    /\ loader_result' = loaded_data
    /\ loader_pc' = "returned"
    /\ UNCHANGED <<file_data, cached_data, loaded_data, file_reads,
                   notLoaderVars>>

\* invalidate_cache, between two calls: the key is deleted
invalidate_cache ==
    /\ loader_pc \in {"idle", "returned", "raised"}
    /\ cache_data.kind = "dict"
    /\ cache_data' = NotChecklist("none")
    /\ loader_pc' = "idle"
    /\ UNCHANGED <<file_data, cached_data, loaded_data, loader_result,
                   file_reads, write_raised, notLoaderVars>>

\* the data file is replaced or removed between two calls
FileChanges ==
    /\ loader_pc \in {"idle", "returned", "raised"}
    /\ file_data' \in FileContents \ {file_data}
    /\ loader_pc' = "idle"
    /\ UNCHANGED <<cache_data, cached_data, loaded_data, loader_result,
                   file_reads, write_raised, notLoaderVars>>

LoaderNext ==
    \/ get_base_house_checklist
    \/ cache_get_returns
    \/ cache_set_returns
    \/ invalidate_cache
    \/ FileChanges

(***************************************************************************)
(* The HTTP endpoints.  POST /v1/scan/run (run_scan) fetches the images    *)
(* of the request's rooms and runs the graph pipeline; GET /v1/simulate    *)
(* (simulate) resolves a folder of demo images and runs the sequential     *)
(* pipeline.  Both catch HTTPException to raise it again and turn every    *)
(* other exception into HTTPException(500).  The use cases raise           *)
(* ValueError when there is no image; no exception type of the service is  *)
(* mapped to another status.                                               *)
(*                                                                         *)
(* The query parameter root is a string over a letter, '_', '.' and '/'.   *)
(* A URL of a room is whether its fetch gives an image.                    *)
(***************************************************************************)
MaxRequestRooms == 2
MaxUrls == 2
MaxRootLen == 2

RootChars == {"a", "_", ".", "/"}

\* root.replace("_", "").replace("-", "").isalnum()
IsAlnumRoot(r) ==
    LET kept == SelectSeq(r, LAMBDA c : c \notin {"_", "-"})
    IN  kept # <<>> /\ \A i \in 1..Len(kept) : kept[i] = "a"

\* _fetch_and_preprocess_images: len(all_images), the images of the rooms
\* that have URLs, those whose fetch failed left out
RECURSIVE FetchedImages(_)
FetchedImages(rs) ==
    IF rs = <<>> THEN 0
    ELSE Len(SelectSeq(Head(rs), LAMBDA fetched : fetched))
             + FetchedImages(Tail(rs))

HttpInit ==
    /\ endpoint = "scan"
    /\ request_rooms = <<>>
    /\ sim_root = <<>>
    /\ resolves_inside = TRUE
    /\ is_dir = TRUE
    /\ all_images = 0
    /\ http_pc = "idle"
    /\ status_code = 0

\* run_scan, up to `await use_case.execute(...)'
run_scan(rs) ==
    /\ http_pc \in {"idle", "answered"}
    /\ endpoint' = "scan"
    /\ request_rooms' = rs
    /\ sim_root' = <<>> /\ resolves_inside' = TRUE /\ is_dir' = TRUE
    /\ all_images' = 0
    /\ IF rs = <<>>
       THEN status_code' = 400 /\ http_pc' = "answered"
       ELSE status_code' = 0 /\ http_pc' = "fetching"
    /\ UNCHANGED notHttpVars

\* RunScanUseCase.execute, step 1: `if not all_images: raise ValueError(...)',
\* which run_scan's `except Exception' answers with 500
fetch_and_preprocess_images ==
    /\ http_pc = "fetching"
    /\ all_images' = FetchedImages(request_rooms)
    /\ IF FetchedImages(request_rooms) = 0
       THEN status_code' = 500 /\ http_pc' = "answered"
       ELSE status_code' = 0 /\ http_pc' = "pipeline"
    /\ UNCHANGED <<endpoint, request_rooms, sim_root, resolves_inside, is_dir,
                   notHttpVars>>

\* simulate, up to `await use_case.execute(...)'
simulate(r, inside, dir) ==
    /\ http_pc \in {"idle", "answered"}
    /\ endpoint' = "simulate"
    /\ request_rooms' = <<>>
    /\ sim_root' = r /\ resolves_inside' = inside /\ is_dir' = dir
    /\ all_images' = 0
    /\ IF r # <<>> /\ ~IsAlnumRoot(r)
       THEN status_code' = 400 /\ http_pc' = "answered"
       ELSE IF ~inside
       THEN status_code' = 400 /\ http_pc' = "answered"
       ELSE IF ~dir
       THEN status_code' = 404 /\ http_pc' = "answered"
       ELSE status_code' = 0 /\ http_pc' = "collecting"
    /\ UNCHANGED notHttpVars

\* RunSimulationUseCase.execute, step 1: `if not rooms_map: raise
\* ValueError(...)', which simulate's `except Exception' answers with 500
collect_simulation_images(n) ==
    /\ http_pc = "collecting"
    /\ all_images' = n
    /\ IF n = 0
       THEN status_code' = 500 /\ http_pc' = "answered"
       ELSE status_code' = 0 /\ http_pc' = "pipeline"
    /\ UNCHANGED <<endpoint, request_rooms, sim_root, resolves_inside, is_dir,
                   notHttpVars>>

\* the rest of the use case: the scan runs the graph pipeline, whose execute
\* always raises; the simulation loads the checklists and runs the
\* sequential pipeline, which returns or raises
use_case_execute ==
    /\ http_pc = "pipeline"
    /\ status_code' \in IF endpoint = "scan" THEN {500} ELSE {200, 500}
    /\ http_pc' = "answered"
    /\ UNCHANGED <<endpoint, request_rooms, sim_root, resolves_inside, is_dir,
                   all_images, notHttpVars>>

HttpNext ==
    \/ \E rs \in SeqsUpTo(SeqsUpTo(BOOLEAN, MaxUrls), MaxRequestRooms) :
          run_scan(rs)
    \/ fetch_and_preprocess_images
    \/ \E r \in SeqsUpTo(RootChars, MaxRootLen), inside, dir \in BOOLEAN :
          simulate(r, inside, dir)
    \/ \E n \in 0..MaxRequestRooms : collect_simulation_images(n)
    \/ use_case_execute

(***************************************************************************)
(* The item list given to Agent 2 (and, by the same code, to Agent 4).     *)
(* The graph node merges in place (nodes.py); the simulation merges before *)
(* the sequential orchestrator runs (run_simulation.py, policies.py) and   *)
(* the orchestrator takes the merged list as it is.                        *)
(***************************************************************************)
MaxDefaultItems == 2

MaxFileTypes == 2

MaxTypeItems == 1

\* the items of one section of the checklist file, ids in file order
SectionItems(ids, section) ==
    [i \in 1..Len(ids) |-> [id |-> ids[i], position |-> i, source |-> section]]

\* base_checklist["house_types"]: the sections in file order
TypeSections ==
    UNION {[1..Len(ts) -> SeqsUpTo(ItemIds \cup {NoId}, MaxTypeItems)] \X {ts} :
              ts \in DistinctSeqsUpTo(TypeIds, MaxFileTypes)}

RECURSIVE ItemsOfTypes(_, _, _)
\* for t in types: if t in sections: items.extend(sections[t]["items"])
ItemsOfTypes(types, keys, ids_of) ==
    IF types = <<>> THEN <<>>
    ELSE LET t == Head(types)
             here == IF \E k \in DOMAIN keys : keys[k] = t
                     THEN LET k == CHOOSE k \in DOMAIN keys : keys[k] = t
                          IN SectionItems(ids_of[k], t)
                     ELSE <<>>
         IN here \o ItemsOfTypes(Tail(types), keys, ids_of)

MergeInit ==
    /\ merge_orchestrator = "sequential"
    /\ default_items = <<>>
    /\ type_items = <<<<>>, <<>>>>
    /\ detected_types = <<>>
    /\ merged_items = <<>>
    /\ merge_pc = "input"

\* nodes.py, evaluate_house_checklist: default items, then the items of each
\* type of the state, an item kept when its id is new (seen_ids)
node_merge_items(default, types, keys, ids_of) ==
    DedupLoop(default \o ItemsOfTypes(types, keys, ids_of), {}, <<>>)

\* policies.py, merge_house_checklist without a custom checklist
merge_house_checklist(default, types, keys, ids_of) ==
    deduplicate_items(default \o ItemsOfTypes(types, keys, ids_of))

\* the graph: state["house_types"] is still [] when the node runs, because
\* the node of Agent 1 returned only an error
evaluate_house_checklist_items ==
    /\ merge_pc = "input"
    /\ \E ids \in SeqsUpTo(ItemIds \cup {NoId}, MaxDefaultItems),
          sections \in TypeSections :
           /\ default_items' = SectionItems(ids, "default")
           /\ type_items' = sections
           /\ merged_items' = node_merge_items(SectionItems(ids, "default"),
                                               <<>>, sections[2], sections[1])
    /\ merge_orchestrator' = "langgraph"
    /\ detected_types' = <<>>
    /\ merge_pc' = "done"
    /\ UNCHANGED notMergeVars

\* the simulation: _merge_house_checklist_for_simulation merges the sections
\* of every type of the file, whatever Agent 1 detects afterwards; execute
\* takes house_checklist["items"] (the merged dict has no "default" key)
execute_house_items ==
    /\ merge_pc = "input"
    /\ \E ids \in SeqsUpTo(ItemIds \cup {NoId}, MaxDefaultItems),
          sections \in TypeSections :
           /\ default_items' = SectionItems(ids, "default")
           /\ type_items' = sections
           /\ merged_items' = merge_house_checklist(
                                  SectionItems(ids, "default"),
                                  sections[2], sections[2], sections[1])
    /\ detected_types' \in DistinctSeqsUpTo(TypeIds, MaxFileTypes)
    /\ merge_orchestrator' = "sequential"
    /\ merge_pc' = "done"
    /\ UNCHANGED notMergeVars

MergeNext ==
    \/ evaluate_house_checklist_items
    \/ execute_house_items

(***************************************************************************)
(* ImagePreprocessor: the images chosen for a call.  An image is named by  *)
(* its index in the list given; the optimisation of each chosen image      *)
(* changes neither their number nor their order.                           *)
(***************************************************************************)
MaxImages == 12

MaxSampleK == 6

MAX_CLASSIFY_IMAGES == 4

\* a list of n images
ImagesOf(n) == [i \in 1..n |-> i - 1]

\* sorted(indices)
Sorted(indices) ==
    [j \in 1..Cardinality(indices) |->
        CHOOSE x \in indices : Cardinality({y \in indices : y < x}) = j - 1]

\* the variant that takes the first k images
sample_for_classification_FirstK(images, k) ==
    IF Len(images) <= k THEN images ELSE SubSeq(images, 1, k)

sample_for_classification(images, k) ==
    IF Len(images) <= k THEN images
    ELSE LET indices == {0, Len(images) \div 3, (2 * Len(images)) \div 3,
                         Len(images) - 1}
         IN [j \in 1..Cardinality(indices) |-> images[Sorted(indices)[j] + 1]]

sample_for_checklist(images, k) ==
    IF Len(images) <= k THEN images ELSE SubSeq(images, 1, k)

SampleInit ==
    /\ sample_stage = "direct"
    /\ sample_images = <<>>
    /\ sample_k = 0
    /\ sampled = <<>>
    /\ sample_pc = "input"

\* a call of sample_for_classification with any k
SampleForClassification ==
    /\ sample_pc = "input"
    /\ \E n \in 0..MaxImages, k \in 0..MaxSampleK :
          /\ sample_images' = ImagesOf(n)
          /\ sample_k' = k
          /\ sampled' = sample_for_classification(ImagesOf(n), k)
    /\ sample_stage' = "direct"
    /\ sample_pc' = "done"
    /\ UNCHANGED notSampleVars

\* Agent 1: sample_for_classification(all_images), k from the settings
house_cls_images ==
    /\ sample_pc = "input"
    /\ \E n \in 1..MaxImages :
          /\ sample_images' = ImagesOf(n)
          /\ sampled' = sample_for_classification(ImagesOf(n),
                                                  MAX_CLASSIFY_IMAGES)
    /\ sample_k' = MAX_CLASSIFY_IMAGES
    /\ sample_stage' = "agent1"
    /\ sample_pc' = "done"
    /\ UNCHANGED notSampleVars

\* Agent 2: sample_for_checklist(all_images, k=6)
house_chk_images ==
    /\ sample_pc = "input"
    /\ \E n \in 1..MaxImages :
          /\ sample_images' = ImagesOf(n)
          /\ sampled' = sample_for_checklist(ImagesOf(n), 6)
    /\ sample_k' = 6
    /\ sample_stage' = "agent2"
    /\ sample_pc' = "done"
    /\ UNCHANGED notSampleVars

\* Agent 3: sample_for_classification(room_images, k=3)
room_cls_images ==
    /\ sample_pc = "input"
    /\ \E n \in 1..MaxImages :
          /\ sample_images' = ImagesOf(n)
          /\ sampled' = sample_for_classification(ImagesOf(n), 3)
    /\ sample_k' = 3
    /\ sample_stage' = "agent3"
    /\ sample_pc' = "done"
    /\ UNCHANGED notSampleVars

\* Agents 4 and 5: sample_for_checklist(room_images, k=3)
room_chk_images(stage) ==
    /\ sample_pc = "input"
    /\ \E n \in 1..MaxImages :
          /\ sample_images' = ImagesOf(n)
          /\ sampled' = sample_for_checklist(ImagesOf(n), 3)
    /\ sample_k' = 3
    /\ sample_stage' = stage
    /\ sample_pc' = "done"
    /\ UNCHANGED notSampleVars

SampleNext ==
    \/ SampleForClassification
    \/ house_cls_images
    \/ house_chk_images
    \/ room_cls_images
    \/ \E stage \in {"agent4", "agent5"} : room_chk_images(stage)

(***************************************************************************)
(* AgentsService.evaluate_checklist: one inference call for each batch of  *)
(* the item list, the results put together with dict.update.               *)
(***************************************************************************)
MaxChecklistItems == 3

MaxBatchSize == 2

\* the item lists: items of the three kinds, two ids
ChecklistItemLists ==
    UNION {[1..n -> {ItemOf(ItemTemplates[t], id) :
                        t \in {1, 2, 5}, id \in {"a", "b"}}] :
              n \in 0..MaxChecklistItems}

\* response.content of a call: an object that answers for "a" and "b", or a
\* text that is not JSON
BatchResponses ==
    { [type |-> "str",
       text |-> <<ObjectText(ObjectWith(
                    JDict(("a" :> JBool(TRUE)) @@ ("b" :> JBool(TRUE))),
                    JDict(("a" :> JStr(Lower(sGood))) @@ ("b" :> JStr(sPoor))),
                    JDict("a" :> JDict(("exists" :> JBool(TRUE))
                                       @@ ("condition" :> JStr(sGood))))))>>],
      [type |-> "str", text |-> <<Prose>>] }

\* the variant that yields only the full chunks
RECURSIVE chunk_list_FullOnly(_, _)
chunk_list_FullOnly(its, chunk_size) ==
    IF Len(its) < chunk_size THEN <<>>
    ELSE <<SubSeq(its, 1, chunk_size)>>
         \o chunk_list_FullOnly(SubSeq(its, chunk_size + 1, Len(its)),
                                chunk_size)

\* for i in range(0, len(items), chunk_size): yield items[i:i + chunk_size]
RECURSIVE chunk_list(_, _)
chunk_list(its, chunk_size) ==
    IF its = <<>> THEN <<>>
    ELSE <<SubSeq(its, 1, Min(chunk_size, Len(its)))>>
         \o chunk_list(SubSeq(its, Min(chunk_size, Len(its)) + 1, Len(its)),
                       chunk_size)

\* d.update(e)
Update(d, e) ==
    [k \in DOMAIN d \cup DOMAIN e |-> IF k \in DOMAIN e THEN e[k] ELSE d[k]]

EvalInit ==
    /\ ec_items = <<>>
    /\ batch_size = 1
    /\ pending_batches = <<>>
    /\ sent_batches = <<>>
    /\ batch_results = <<>>
    /\ accumulated_results = NoOutcome
    /\ ec_pc = "input"

\* the call, up to the loop over the batches
evaluate_checklist_begin ==
    /\ ec_pc = "input"
    /\ \E its \in ChecklistItemLists, b \in 1..MaxBatchSize :
          /\ ec_items' = its
          /\ batch_size' = b
          /\ pending_batches' = chunk_list(its, b)
    /\ ec_pc' = "batching"
    /\ UNCHANGED <<sent_batches, batch_results, accumulated_results,
                   notEcVars>>

\* one turn of the loop: the call of the model with the batch, the parsing
\* of its response and the three updates; an exception leaves the method
evaluate_checklist_batch ==
    /\ ec_pc = "batching"
    /\ pending_batches # <<>>
    /\ sent_batches' = Append(sent_batches, Head(pending_batches))
    /\ \/ \E batch_result \in
                {parse_checklist_response(content, Head(pending_batches)) :
                    content \in BatchResponses} :
                IF batch_result.raised
                THEN /\ ec_pc' = "raised"
                     /\ UNCHANGED <<pending_batches, batch_results,
                                    accumulated_results>>
                ELSE /\ pending_batches' = Tail(pending_batches)
                     /\ batch_results' = Append(batch_results, batch_result)
                     /\ accumulated_results' =
                           [accumulated_results EXCEPT
                              !.booleans = Update(@, batch_result.booleans),
                              !.categoricals =
                                  Update(@, batch_result.categoricals),
                              !.conditionals =
                                  Update(@, batch_result.conditionals)]
                     /\ ec_pc' = "batching"
       \/ \* vision_client.invoke raises
          /\ ec_pc' = "raised"
          /\ UNCHANGED <<pending_batches, batch_results, accumulated_results>>
    /\ UNCHANGED <<ec_items, batch_size, notEcVars>>

\* the loop is over: return accumulated_results
evaluate_checklist_end ==
    /\ ec_pc = "batching"
    /\ pending_batches = <<>>
    /\ ec_pc' = "returned"
    /\ UNCHANGED <<ec_items, batch_size, pending_batches, sent_batches,
                   batch_results, accumulated_results, notEcVars>>

EvalNext ==
    \/ evaluate_checklist_begin
    \/ evaluate_checklist_batch
    \/ evaluate_checklist_end

(***************************************************************************)
(* _normalize_option_value on its own.                                     *)
(***************************************************************************)
\* the values: None, a number, and strings
OptionValues ==
    {JNull, JNum(1)}
    \cup {JStr(str) : str \in {<<>>, <<" ">>, <<"g", "O", "o", "D">>,
                               <<"r", "u", "b", "b", "i", "s", "h">>,
                               sGood, Quoted(sGood), Padded(Lower(sPoor)),
                               Lower(sNA), sYes, Quoted(<<>>),
                               Padded(Quoted(Padded(sNo)))}}

\* the option lists: None (<<>>), or what _normalize_allowed_options gives
AllowedOptionLists ==
    {normalize_allowed_options(options) :
        options \in { <<>>,
                      [i \in 1..5 |-> JStr(DEFAULT_CONDITION_OPTIONS[i])],
                      <<JStr(sYes), JStr(sNo)>>,
                      <<JStr(sPoor), JStr(Lower(sNA)), JStr(sGood), JStr(sNA)>>,
                      <<JStr(Padded(sGood)), JStr(Lower(sGood)), JNum(1)>>,
                      <<JStr(Lower(sGood)), JStr(sNA), JStr(sPoor)>>,
                      <<JStr(sNo)>>,
                      <<JStr(Quoted(sYes)), JStr(<<" ">>), JStr(Lower(sNA))>>,
                      <<JStr(sGood), JStr(sPoor)>> }}

NormalizeValueInit ==
    /\ nov_value = JNull
    /\ nov_allowed = <<>>
    /\ nov_result = <<>>
    /\ nov_pc = "input"

NormalizeOptionValue ==
    /\ nov_pc = "input"
    /\ \E value \in OptionValues, allowed \in AllowedOptionLists :
          /\ nov_value' = value
          /\ nov_allowed' = allowed
          /\ nov_result' = normalize_option_value(value, allowed)
    /\ nov_pc' = "done"
    /\ UNCHANGED notNovVars

NormalizeValueNext == NormalizeOptionValue

(***************************************************************************)
(* Scan requests: POST /v1/scan builds a RunScanUseCase for the request;   *)
(* its execute fetches the images and then constructs a                    *)
(* RunAgentPipelineLangGraphUseCase, whose AgentPipelineGraph constructs a *)
(* RateLimiter from the settings.                                          *)
(***************************************************************************)
NumScans == 3

Scans == 1..NumScans

\* RateLimiter(tokens_per_minute, requests_per_minute, max_concurrent): full
\* buckets and a semaphore of max_concurrent slots
NewRateLimiter ==
    [tpm_tokens |-> tpm_capacity * Unit,
     rpm_tokens |-> rpm_capacity * Unit,
     semaphore  |-> max_concurrent]

ScansIdle ==
    /\ scan_pc = [r \in Scans |-> "idle"]
    /\ limiters = <<>>
    /\ scan_limiter = [r \in Scans |-> 0]

\* the route received a request with rooms and awaits use_case.execute
scan_house(r) ==
    /\ scan_pc[r] = "idle"
    /\ scan_pc' = [scan_pc EXCEPT ![r] = "fetching"]
    /\ UNCHANGED <<limiters, scan_limiter, notScanVars>>

\* step 1 of execute: the images are fetched and preprocessed; with no image
\* ValueError("No images were successfully fetched") ends the request
execute_fetch(r, fetched) ==
    /\ scan_pc[r] = "fetching"
    /\ scan_pc' = [scan_pc EXCEPT ![r] = IF fetched = 0 THEN "failed"
                                                       ELSE "fetched"]
    /\ UNCHANGED <<limiters, scan_limiter, notScanVars>>

\* step 2 of execute: RunAgentPipelineLangGraphUseCase(...) constructs an
\* AgentPipelineGraph, whose __init__ constructs a RateLimiter and hands it
\* to PipelineNodes; agent_pipeline.execute then starts
create_agent_pipeline(r) ==
    /\ scan_pc[r] = "fetched"
    /\ limiters' = Append(limiters, NewRateLimiter)
    /\ scan_limiter' = [scan_limiter EXCEPT ![r] = Len(limiters) + 1]
    /\ scan_pc' = [scan_pc EXCEPT ![r] = "executing"]
    /\ UNCHANGED notScanVars

\* agent_pipeline.execute returned or raised: the request is over
pipeline_ends(r) ==
    /\ scan_pc[r] = "executing"
    /\ scan_pc' = [scan_pc EXCEPT ![r] = "finished"]
    /\ UNCHANGED <<limiters, scan_limiter, notScanVars>>

ScansNext ==
    \/ \E r \in Scans : scan_house(r)
    \/ \E r \in Scans, fetched \in 0..1 : execute_fetch(r, fetched)
    \/ \E r \in Scans : create_agent_pipeline(r)
    \/ \E r \in Scans : pipeline_ends(r)

(***************************************************************************)
(* Specifications: one per part; the other parts stay idle.                *)
(***************************************************************************)
\* the governor alone
RateLimiterAlone ==
    /\ RateLimiterIdle
    /\ ClassifyIdle /\ DedupIdle /\ IssueLinesIdle /\ ParseIdle
    /\ PipelineIdle
    /\ LoaderInit
    /\ HttpInit
    /\ MergeInit
    /\ SampleInit
    /\ EvalInit
    /\ NormalizeValueInit
    /\ ScansIdle

SpecRateLimiter == RateLimiterAlone /\ [][RateLimiterNext]_vars

\* the governor with the history of the last minute's grants
RateLimiterObserved ==
    /\ RateLimiterInit /\ observing = TRUE
    /\ ClassifyIdle /\ DedupIdle /\ IssueLinesIdle /\ ParseIdle
    /\ PipelineIdle
    /\ LoaderInit
    /\ HttpInit
    /\ MergeInit
    /\ SampleInit
    /\ EvalInit
    /\ NormalizeValueInit
    /\ ScansIdle

SpecRateWindow == RateLimiterObserved /\ [][RateLimiterNext]_vars

\* the governor under fair scheduling
RateLimiterLive ==
    /\ RateLimiterLiveInit
    /\ ClassifyIdle /\ DedupIdle /\ IssueLinesIdle /\ ParseIdle
    /\ PipelineIdle /\ LoaderInit /\ HttpInit /\ MergeInit /\ SampleInit
    /\ EvalInit /\ NormalizeValueInit /\ ScansIdle

SpecRateLive ==
    RateLimiterLive /\ [][RateLimiterLiveNext]_vars /\ RateLimiterFairness

\* classification
ClassifyAlone ==
    /\ ClassifyInit
    /\ RateLimiterIdle /\ DedupIdle /\ IssueLinesIdle /\ ParseIdle
    /\ PipelineIdle
    /\ LoaderInit
    /\ HttpInit
    /\ MergeInit
    /\ SampleInit
    /\ EvalInit
    /\ NormalizeValueInit
    /\ ScansIdle

SpecClassify == ClassifyAlone /\ [][ClassifyNext]_vars

\* de-duplication
DedupAlone ==
    /\ DedupInit
    /\ RateLimiterIdle /\ ClassifyIdle /\ IssueLinesIdle /\ ParseIdle
    /\ PipelineIdle
    /\ LoaderInit
    /\ HttpInit
    /\ MergeInit
    /\ SampleInit
    /\ EvalInit
    /\ NormalizeValueInit
    /\ ScansIdle

SpecDedup == DedupAlone /\ [][DedupNext]_vars

\* issue lines
IssueLinesAlone ==
    /\ IssueLinesInit
    /\ RateLimiterIdle /\ ClassifyIdle /\ DedupIdle /\ ParseIdle
    /\ PipelineIdle
    /\ LoaderInit
    /\ HttpInit
    /\ MergeInit
    /\ SampleInit
    /\ EvalInit
    /\ NormalizeValueInit
    /\ ScansIdle

SpecIssueLines == IssueLinesAlone /\ [][IssueLinesNext]_vars

\* the response normalizer
ParseAlone ==
    /\ ParseInit
    /\ RateLimiterIdle /\ ClassifyIdle /\ DedupIdle /\ IssueLinesIdle
    /\ PipelineIdle
    /\ LoaderInit
    /\ HttpInit
    /\ MergeInit
    /\ SampleInit
    /\ EvalInit
    /\ NormalizeValueInit
    /\ ScansIdle

SpecParse == ParseAlone /\ [][ParseNext]_vars

\* the pipeline; the governor is there, with all its slots free
PipelineAlone ==
    /\ PipelineInit
    /\ RateLimiterIdle /\ ClassifyIdle /\ DedupIdle /\ IssueLinesIdle
    /\ ParseIdle
    /\ LoaderInit
    /\ HttpInit
    /\ MergeInit
    /\ SampleInit
    /\ EvalInit
    /\ NormalizeValueInit
    /\ ScansIdle

SpecPipeline == PipelineAlone /\ [][PipelineNext]_vars

\* the checklist loader
LoaderAlone ==
    /\ LoaderInit
    /\ RateLimiterIdle /\ ClassifyIdle /\ DedupIdle /\ IssueLinesIdle
    /\ ParseIdle /\ PipelineIdle
    /\ HttpInit
    /\ MergeInit
    /\ SampleInit
    /\ EvalInit
    /\ NormalizeValueInit
    /\ ScansIdle

SpecLoader == LoaderAlone /\ [][LoaderNext]_vars

\* the HTTP endpoints
HttpAlone ==
    /\ HttpInit
    /\ RateLimiterIdle /\ ClassifyIdle /\ DedupIdle /\ IssueLinesIdle
    /\ ParseIdle /\ PipelineIdle /\ LoaderInit
    /\ MergeInit
    /\ SampleInit
    /\ EvalInit
    /\ NormalizeValueInit
    /\ ScansIdle

SpecHttp == HttpAlone /\ [][HttpNext]_vars

\* the item list alone
MergeAlone ==
    /\ MergeInit
    /\ RateLimiterIdle /\ ClassifyIdle /\ DedupIdle /\ IssueLinesIdle
    /\ ParseIdle /\ PipelineIdle /\ LoaderInit /\ HttpInit
    /\ SampleInit
    /\ EvalInit
    /\ NormalizeValueInit
    /\ ScansIdle

SpecMerge == MergeAlone /\ [][MergeNext]_vars

\* the choice of images alone
SampleAlone ==
    /\ SampleInit
    /\ RateLimiterIdle /\ ClassifyIdle /\ DedupIdle /\ IssueLinesIdle
    /\ ParseIdle /\ PipelineIdle /\ LoaderInit /\ HttpInit /\ MergeInit
    /\ EvalInit
    /\ NormalizeValueInit
    /\ ScansIdle

SpecSample == SampleAlone /\ [][SampleNext]_vars

\* evaluate_checklist alone
EvalAlone ==
    /\ EvalInit
    /\ RateLimiterIdle /\ ClassifyIdle /\ DedupIdle /\ IssueLinesIdle
    /\ ParseIdle /\ PipelineIdle /\ LoaderInit /\ HttpInit /\ MergeInit
    /\ SampleInit
    /\ NormalizeValueInit
    /\ ScansIdle

SpecEval == EvalAlone /\ [][EvalNext]_vars

\* _normalize_option_value alone
NormalizeValueAlone ==
    /\ NormalizeValueInit
    /\ RateLimiterIdle /\ ClassifyIdle /\ DedupIdle /\ IssueLinesIdle
    /\ ParseIdle /\ PipelineIdle /\ LoaderInit /\ HttpInit /\ MergeInit
    /\ SampleInit /\ EvalInit
    /\ ScansIdle

SpecNormalizeValue == NormalizeValueAlone /\ [][NormalizeValueNext]_vars

\* the scan requests alone
ScansAlone ==
    /\ ScansIdle
    /\ RateLimiterIdle /\ ClassifyIdle /\ DedupIdle /\ IssueLinesIdle
    /\ ParseIdle /\ PipelineIdle /\ LoaderInit /\ HttpInit /\ MergeInit
    /\ SampleInit /\ EvalInit /\ NormalizeValueInit

SpecScans == ScansAlone /\ [][ScansNext]_vars

(***************************************************************************)
(* Properties                                                              *)
(***************************************************************************)
Holding == {c \in Callers : pc[c] = "acquired"}

\* the tokens of the history
RECURSIVE GrantedTokens(_)
GrantedTokens(g) ==
    IF g = <<>> THEN 0 ELSE Head(g).tokens + GrantedTokens(Tail(g))

(***************************************************************************)
(* C1: over any 60-second window, the estimated_tokens deducted by the     *)
(* acquire calls that returned in it sum to at most tokens_per_minute, and *)
(* at most requests_per_minute calls returned in it.  `granted' holds the  *)
(* calls that returned less than a minute ago, so the window that ends now *)
(* is checked in every state.                                              *)
(***************************************************************************)
C1_WindowWithinCapacity ==
    /\ GrantedTokens(granted) <= tokens_per_minute
    /\ Len(granted) <= requests_per_minute

(***************************************************************************)
(* C2: the callers whose acquire has returned and who have not called      *)
(* release are never more than max_concurrent.                             *)
(***************************************************************************)
C2_AtMostMaxConcurrent == Cardinality(Holding) <= max_concurrent

\* max_concurrent callers hold a slot and another one waits for one
C2_SaturatedWithWaiter ==
    /\ Cardinality(Holding) = max_concurrent
    /\ \E c \in Callers : pc[c] = "sem_wait"

(***************************************************************************)
(* C3: when a caller is cancelled while it waits in the token loop, the    *)
(* semaphore slot it took is released: the free slots go up by one.        *)
(***************************************************************************)
C3_CancelledSleeperReleasesSlot ==
    [][\A c \in Callers :
          (pc[c] = "sleeping" /\ pc'[c] = "cancelled")
              => semaphore' = semaphore + 1]_vars

\* s is t with some elements left out (the order is kept)
RECURSIVE IsSubsequence(_, _)
IsSubsequence(s, t) ==
    IF s = <<>> THEN TRUE
    ELSE IF t = <<>> THEN FALSE
    ELSE IF Head(s) = Head(t) THEN IsSubsequence(Tail(s), Tail(t))
    ELSE IsSubsequence(s, Tail(t))

(***************************************************************************)
(* C7: the types classify_types returns, and the house_types / room_types  *)
(* stored after validate_house_types / validate_room_types, are all in     *)
(* allowed_types and come in the order the model returned them.            *)
(***************************************************************************)
C7_TypesAllowedInModelOrder ==
    /\ cls_pc \in {"returned", "stored"} =>
          /\ Range(returned_types) \subseteq Range(allowed_types)
          /\ IsSubsequence(returned_types, model_types)
    /\ cls_pc = "stored" =>
          /\ Range(stored_types) \subseteq Range(allowed_types)
          /\ IsSubsequence(stored_types, model_types)

\* the model named a type that is not allowed between two allowed ones,
\* the allowed ones in the reverse of their order in allowed_types
C7_FilteredOutOfAllowedOrder ==
    /\ cls_pc = "stored"
    /\ Len(allowed_types) = 2
    /\ Len(model_types) = 3
    /\ model_types[2] \notin Range(allowed_types)
    /\ stored_types = <<allowed_types[2], allowed_types[1]>>
    /\ allowed_types[1] # allowed_types[2]

\* the positions of the items that are the last of their id
LastOfTheirId(its) ==
    {i \in 1..Len(its) :
        /\ its[i].id # NoId
        /\ \A k \in (i + 1)..Len(its) : its[k].id # its[i].id}

(***************************************************************************)
(* C8: _deduplicate_items returns items with pairwise distinct ids, each   *)
(* id of the input represented by its last occurrence, in the order of     *)
(* their positions in the input (an item without an id has none to         *)
(* represent and is left out); ids [a, b, a, c, b] give the 3rd, 4th and   *)
(* 5th items.                                                              *)
(***************************************************************************)
C8_LastOccurrenceInOriginalOrder ==
    dd_pc = "done" =>
        /\ \A i, j \in 1..Len(deduplicated) :
              i # j => deduplicated[i].id # deduplicated[j].id
        /\ Range(deduplicated) = {items[i] : i \in LastOfTheirId(items)}
        /\ \A i, j \in 1..Len(deduplicated) :
              i < j => deduplicated[i].position < deduplicated[j].position
        /\ items = ItemsWithIds(<<"a", "b", "a", "c", "b">>) =>
              deduplicated = <<[id |-> "a", position |-> 3],
                               [id |-> "c", position |-> 4],
                               [id |-> "b", position |-> 5]>>

\* the example of the claim has been de-duplicated
C8_ExampleDeduplicated ==
    /\ dd_pc = "done"
    /\ Len(items) = 5
    /\ [i \in 1..5 |-> items[i].id] = <<"a", "b", "a", "c", "b">>
    /\ [i \in 1..Len(deduplicated) |-> deduplicated[i].id] = <<"a", "c", "b">>

\* the lines of one conditional, as the specification lists them
ExpectedConditionalLines(scope, id, c) ==
    IF ~c.exists THEN <<>>
    ELSE <<scope \o ":" \o id \o ":exists">>
         \o (IF c.condition # Null
             THEN <<scope \o ":" \o id \o ":condition:" \o c.condition>>
             ELSE <<>>)
         \o LET Wanted(kv) == kv[2] # "N/A"
                subs == SelectSeq(c.subitems, Wanted)
            IN [i \in 1..Len(subs) |->
                   scope \o ":" \o id \o ":" \o subs[i][1] \o ":" \o subs[i][2]]

RECURSIVE Flatten(_)
Flatten(ss) == IF ss = <<>> THEN <<>> ELSE Head(ss) \o Flatten(Tail(ss))

(***************************************************************************)
(* C9: _checklist_to_issue_lines emits, in this order, '{scope}:{id}:true' *)
(* for each true boolean, '{scope}:{id}:{value}' for each categorical      *)
(* whose value is not "N/A", and for each conditional that exists          *)
(* '{scope}:{id}:exists', '{scope}:{id}:condition:{value}' when the        *)
(* condition is not null, and '{scope}:{id}:{subid}:{value}' for each      *)
(* subitem whose value is not "N/A"; and the example of the claim gives    *)
(* exactly its five lines.                                                 *)
(***************************************************************************)
C9_IssueLinesAsSpecified ==
    il_pc = "done" =>
        /\ LET IsTrue(kv) == kv[2]
               NotNA(kv) == kv[2] # "N/A"
               bs == SelectSeq(answers.booleans, IsTrue)
               cs == SelectSeq(answers.categoricals, NotNA)
           IN lines =
                [i \in 1..Len(bs) |-> prefix \o ":" \o bs[i][1] \o ":true"]
                \o [i \in 1..Len(cs) |->
                       prefix \o ":" \o cs[i][1] \o ":" \o cs[i][2]]
                \o Flatten([i \in 1..Len(answers.conditionals) |->
                       ExpectedConditionalLines(prefix,
                           answers.conditionals[i][1],
                           answers.conditionals[i][2])])
        /\ ( /\ prefix = "house"
             /\ answers.booleans = <<<<"damage", TRUE>>, <<"functional", FALSE>>>>
             /\ answers.categoricals = <<<<"wall", "Poor">>>>
             /\ answers.conditionals =
                  <<<<"roof", [exists |-> TRUE, condition |-> "Average",
                               subitems |-> <<<<"tiles", "Poor">>>>]>>>> )
           => lines = <<"house:damage:true", "house:wall:Poor",
                        "house:roof:exists", "house:roof:condition:Average",
                        "house:roof:tiles:Poor">>

\* the example of the claim has been turned into its five lines
C9_ExampleLines ==
    /\ il_pc = "done"
    /\ prefix = "house"
    /\ answers.booleans = <<<<"damage", TRUE>>, <<"functional", FALSE>>>>
    /\ Len(answers.categoricals) = 1
    /\ Len(answers.conditionals) = 1
    /\ Len(lines) = 5
    /\ lines[5] = "house:roof:tiles:Poor"

\* the ids of the batch that are of the given kind
BatchIdsOfType(expected, type) ==
    {expected[i].id : i \in {j \in 1..Len(expected) : expected[j].type = type}}

\* every item of the batch has an id and one of the three kinds
HasIdsAndKinds(expected) ==
    \A i \in 1..Len(expected) :
        /\ expected[i].id # ""
        /\ expected[i].type \in {"boolean", "categorical", "conditional"}

(***************************************************************************)
(* C5: whatever the response, _parse_checklist_response returns a result   *)
(* that has, for every id of the batch, an entry in the map of the item's  *)
(* kind, and the keys of the three maps together are the ids of the batch  *)
(* (for batches whose items all have an id and one of the three kinds).    *)
(***************************************************************************)
C5_EveryIdInTheMapOfItsKind ==
    (parse_pc = "done" /\ HasIdsAndKinds(expected_items)) =>
        /\ ~outcome.raised
        /\ BatchIdsOfType(expected_items, "boolean")
              \subseteq DOMAIN outcome.booleans
        /\ BatchIdsOfType(expected_items, "categorical")
              \subseteq DOMAIN outcome.categoricals
        /\ BatchIdsOfType(expected_items, "conditional")
              \subseteq DOMAIN outcome.conditionals
        /\ DOMAIN outcome.booleans \cup DOMAIN outcome.categoricals
              \cup DOMAIN outcome.conditionals
           = {expected_items[i].id : i \in 1..Len(expected_items)}

\* the default of an answer with the allowed options `allowed', as the
\* specification gives it: the "N/A" of the options, else the first
\* option, and "N/A" without options
DefaultOption(allowed) ==
    LET na == {i \in 1..Len(allowed) : Lower(allowed[i]) = Lower(sNA)}
    IN IF allowed = <<>> THEN sNA
       ELSE IF na # {} THEN allowed[CHOOSE i \in na : \A j \in na : i <= j]
       ELSE allowed[1]

\* the all-defaults answer for a conditional item
DefaultConditional(item) ==
    LET options == normalize_allowed_options(item.options)
        condition_allowed == IF options # <<>> THEN options
                             ELSE DEFAULT_CONDITION_OPTIONS
        subs == {i \in 1..Len(item.subitems) : item.subitems[i].id # ""}
        SubAllowed(i) ==
            LET own == normalize_allowed_options(item.subitems[i].options)
            IN IF own # <<>> THEN own ELSE condition_allowed
    IN [exists |-> FALSE,
        condition |-> DefaultOption(condition_allowed),
        subitems |-> [k \in {item.subitems[i].id : i \in subs} |->
                         LET i == CHOOSE j \in subs : item.subitems[j].id = k
                         IN DefaultOption(SubAllowed(i))]]

ItemWithId(expected, id) ==
    expected[CHOOSE i \in 1..Len(expected) : expected[i].id = id]

(***************************************************************************)
(* C6: when the raw text cannot be parsed as JSON, also not from the first *)
(* '{' to the last '}', _parse_checklist_response raises nothing and       *)
(* returns the all-defaults result: false for a boolean, the default       *)
(* option for a categorical, and exists = false with the default condition *)
(* and the default subitems for a conditional.                             *)
(***************************************************************************)
C6_UnparseableGivesAllDefaults ==
    (parse_pc = "done" /\ IsUnparseable(response)
        /\ HasIdsAndKinds(expected_items)) =>
        /\ ~outcome.raised
        /\ outcome.booleans =
              [k \in BatchIdsOfType(expected_items, "boolean") |-> FALSE]
        /\ outcome.categoricals =
              [k \in BatchIdsOfType(expected_items, "categorical") |->
                  DefaultOption(normalize_allowed_options(
                      ItemWithId(expected_items, k).options))]
        /\ outcome.conditionals =
              [k \in BatchIdsOfType(expected_items, "conditional") |->
                  DefaultConditional(ItemWithId(expected_items, k))]

(***************************************************************************)
(* The pipeline and the governor                                           *)
(***************************************************************************)
\* C4: while the inference call of a pipeline stage is in progress, the stage
\* holds exactly one slot of the governor (the slots held are max_concurrent
\* less the semaphore's value): the call was made after an acquire returned
\* for it and before the matching release.
C4_InferenceHoldsOneSlot == in_flight # Null => max_concurrent - semaphore = 1

\* C10: when the processing of a room raised at Agent 3, 4 or 5 and no other
\* stage recorded an error, the run still ends by returning a HouseResult:
\* Agent 6 produced its output and the rooms list holds exactly the other rooms
\* that have images, without the failed one.
C10_RoomFailureIsIsolated ==
    (failed_rooms # {} /\ ~state_error /\ node \in {"returned", "raised"}) =>
        /\ node = "returned"
        /\ pros_cons
        /\ room_results =
               SelectSeq([r \in 1..NumRooms |-> r],
                         LAMBDA r : rooms_map[r] > 0 /\ r \notin failed_rooms)

\* C11: when the call of Agent 1, Agent 2 or Agent 6 raised (sequential) or
\* its node recorded an error (graph), the run ends raising: the next step of
\* a failed house-level stage is the exception leaving execute, a run whose
\* state holds an error never returns, and a run that raised stays so; no
\* HouseResult, not even a partial one, reaches the caller.
C11_HouseStageFailureRaises ==
    [][/\ (agent_outcome = "raised" /\ node \in {"agent1", "agent2", "agent6"})
            => node' = "raised"
       /\ state_error => node' # "returned"
       /\ node = "raised" => node' = "raised"]_vars

\* Agent 6 failed after a room had been processed: the run raised although
\* house answers and a RoomResult were there
C11_RaisedWithRoomsDone ==
    /\ orchestrator = "sequential"
    /\ node = "raised"
    /\ failed_rooms = {}
    /\ room_results # <<>>
    /\ <<"agent2", 0>> \in returned_calls

C13_RoomsListInOrder ==
    /\ node \in {"agent6", "returned", "agent6_pros_cons", "END"} =>
           /\ room_results =
                  SelectSeq([r \in 1..NumRooms |-> r],
                            LAMBDA r : rooms_map[r] > 0 /\ r \notin failed_rooms)
           /\ orchestrator = "sequential" =>
                  \A r \in Range(room_results) : <<"agent5", r>> \in returned_calls
    /\ in_flight \in {"agent3", "agent4", "agent5"} => rooms_map[room_cursor] > 0
    /\ \A c \in returned_calls : c[2] # 0 => rooms_map[c[2]] > 0

\* a report whose rooms list skips the room without images
C13_ReturnedWithoutEmptyRoom ==
    /\ node = "returned"
    /\ rooms_map[1] > 0 /\ rooms_map[2] = 0 /\ rooms_map[3] > 0
    /\ room_results = <<1, 3>>

(***************************************************************************)
(* The checklist loader and its cache                                      *)
(***************************************************************************)
\* C14: a call that returned after cache.get raised read the file once and
\* returned the file's checklist (with its sections completed); a call in
\* which cache.set raised returned that same checklist; a call to which
\* cache.get answered a checklist returned it without opening the file; and
\* a call raised only because the file is missing or is not a JSON object.
C14_CacheFailureNeverBlocks ==
    /\ loader_pc = "returned" =>
           /\ cached_data.kind = "raised" =>
                  file_reads = 1 /\ loader_result = WithSections(file_data)
           /\ write_raised =>
                  file_reads = 1 /\ loader_result = WithSections(file_data)
           /\ cached_data.kind = "dict" =>
                  file_reads = 0 /\ loader_result = cached_data
    /\ loader_pc = "raised" => file_data.kind \in {"missing", "not_an_object"}

\* both cache operations raised in one call, which still returned
C14_ReturnedDespiteBothFailures ==
    /\ loader_pc = "returned"
    /\ cached_data.kind = "raised"
    /\ write_raised
    /\ loader_result.kind = "dict"

(***************************************************************************)
(* The HTTP endpoints                                                      *)
(***************************************************************************)
\* C15: an answered request has status 400 when its input is invalid (a scan
\* without rooms, a scan for which no image could be obtained, a simulation
\* root with characters that are not allowed or outside the demo folder),
\* 404 when the simulation folder of a valid root does not exist, and 200 or
\* 500 otherwise.
C15_StatusByCondition ==
    http_pc = "answered" =>
        LET invalid_root ==
                \/ sim_root # <<>> /\ ~IsAlnumRoot(sim_root)
                \/ ~resolves_inside
            invalid_input ==
                \/ endpoint = "scan" /\ request_rooms = <<>>
                \/ endpoint = "scan" /\ FetchedImages(request_rooms) = 0
                \/ endpoint = "simulate" /\ invalid_root
            not_found == endpoint = "simulate" /\ ~invalid_root /\ ~is_dir
        IN  /\ invalid_input => status_code = 400
            /\ not_found => status_code = 404
            /\ ~invalid_input /\ ~not_found => status_code \in {200, 500}

\* C16: the item list given to Agent 2 (Agent 4) is the default items
\* followed by the items of each detected type, deduplicated by id with the
\* last occurrence winning: for a shared id the later, type-specific item of
\* a detected type is the one evaluated.
C16_MergedListLastWins ==
    merge_pc = "done" =>
        merged_items =
            deduplicate_items(default_items
                              \o ItemsOfTypes(detected_types, type_items[2],
                                              type_items[1]))

\* C17: sample_for_classification(images, k) selects every image, in order,
\* when there are at most k of them; otherwise it selects exactly the images
\* at the indices 0, n div 3, 2n div 3 and n - 1, each once and in rising
\* order, whatever k is (n = 10, k = 4 selects 0, 3, 6, 9).
C17_ClassificationSample ==
    (sample_pc = "done" /\ sample_stage \in {"direct", "agent1", "agent3"}) =>
        LET n == Len(sample_images)
        IN /\ n <= sample_k => sampled = sample_images
           /\ n > sample_k =>
                 /\ Range(sampled) = {sample_images[i + 1] :
                        i \in {0, n \div 3, (2 * n) \div 3, n - 1}}
                 /\ \A i, j \in 1..Len(sampled) :
                        i < j => sampled[i] < sampled[j]
           /\ (n = 10 /\ sample_k = 4) => sampled = <<0, 3, 6, 9>>

C17_TenImagesFourChosen ==
    /\ sample_pc = "done" /\ sample_stage = "direct"
    /\ Len(sample_images) = 10 /\ sample_k = 4
    /\ sampled = <<0, 3, 6, 9>>

\* C18: the number of images sent to a stage never exceeds its cap (4 for
\* Agent 1, 6 for Agent 2, 3 for each of Agents 3, 4 and 5), and the
\* checklist stages (2, 4, 5) send the first min(n, k) images in order.
C18_ImagesWithinCap ==
    (sample_pc = "done" /\ sample_stage # "direct") =>
        /\ Len(sampled) <= (CASE sample_stage = "agent1" -> 4
                              [] sample_stage = "agent2" -> 6
                              [] OTHER -> 3)
        /\ sample_stage \in {"agent2", "agent4", "agent5"} =>
              sampled = SubSeq(sample_images, 1,
                               Min(Len(sample_images), sample_k))

\* C19: no issue line of the summary has the value 'N/A': a conditional that
\* exists and whose condition is 'N/A' gives its ':exists' line and no
\* '{scope}:{id}:condition:N/A' line, as a categorical or a subitem with the
\* value 'N/A' gives no line.
C19_NoLineForNA ==
    il_pc = "done" =>
        /\ \A i \in DOMAIN answers.categoricals :
              (prefix \o ":" \o answers.categoricals[i][1] \o ":N/A")
                  \notin Range(lines)
        /\ \A i \in DOMAIN answers.conditionals :
              LET key == answers.conditionals[i][1]
                  conditional == answers.conditionals[i][2]
              IN /\ \A j \in DOMAIN conditional.subitems :
                        (prefix \o ":" \o key \o ":"
                            \o conditional.subitems[j][1] \o ":N/A")
                            \notin Range(lines)
                 /\ (conditional.exists /\ conditional.condition = "N/A") =>
                        /\ (prefix \o ":" \o key \o ":exists") \in Range(lines)
                        /\ (prefix \o ":" \o key \o ":condition:N/A")
                               \notin Range(lines)

\* C20: with two or more non-empty rooms the per-room work is concurrent:
\* the inference call of one room is in flight while that of another room
\* starts.  Room tasks that are started together (asyncio.gather) and are
\* suspended in their calls give this in every run, as: while the first
\* inference call of a room (Agent 3) is in flight, no other room has
\* finished.
C20_RoomCallsOverlap ==
    in_flight = "agent3" => room_results = <<>> /\ failed_rooms = {}

\* the maps of the results rs put together in order, a later one winning
RECURSIVE UnionOfResults(_)
UnionOfResults(rs) ==
    IF rs = <<>> THEN NoOutcome
    ELSE LET before == UnionOfResults(SubSeq(rs, 1, Len(rs) - 1))
             last == rs[Len(rs)]
         IN [before EXCEPT
               !.booleans = Update(@, last.booleans),
               !.categoricals = Update(@, last.categoricals),
               !.conditionals = Update(@, last.conditionals)]

\* C21: evaluate_checklist over n items with batch size B makes exactly
\* ceil(n/B) inference calls, one per batch; the batches are contiguous
\* slices of the item list in order, none empty and none longer than B, so
\* that every item is in exactly one batch; the result is the union of the
\* normalized results of the batches; with no item no call is made and the
\* three maps are empty.
C21_OneCallPerBatch ==
    ec_pc = "returned" =>
        /\ Len(sent_batches) = CeilDiv(Len(ec_items), batch_size)
        /\ Flatten(sent_batches) = ec_items
        /\ \A i \in DOMAIN sent_batches :
              Len(sent_batches[i]) \in 1..batch_size
        /\ \A i \in DOMAIN sent_batches :
              i < Len(sent_batches) => Len(sent_batches[i]) = batch_size
        /\ Len(batch_results) = Len(sent_batches)
        /\ accumulated_results = UnionOfResults(batch_results)
        /\ \A i \in DOMAIN batch_results :
              /\ DOMAIN batch_results[i].booleans
                    \subseteq DOMAIN accumulated_results.booleans
              /\ DOMAIN batch_results[i].categoricals
                    \subseteq DOMAIN accumulated_results.categoricals
              /\ DOMAIN batch_results[i].conditionals
                    \subseteq DOMAIN accumulated_results.conditionals
        /\ ec_items = <<>> =>
              /\ sent_batches = <<>>
              /\ accumulated_results = NoOutcome

\* three items in batches of two: two calls, the second with one item
C21_ThreeItemsTwoCalls ==
    /\ ec_pc = "returned"
    /\ Len(ec_items) = 3 /\ batch_size = 2
    /\ Len(sent_batches) = 2 /\ Len(sent_batches[2]) = 1
    /\ DOMAIN accumulated_results.booleans # {}

\* C22: _normalize_option_value(value, allowed).  With a non-empty allowed
\* list the result is a member of it: the option that matches the value
\* without regard to case; otherwise the first option that is 'N/A' without
\* regard to case; otherwise allowed[0].  With no allowed list the result is
\* the value stripped of its quotes, or 'N/A' when the value is absent or
\* empty.  For [Poor, Average, Good, Excellent, N/A]: 'gOoD' gives 'Good',
\* 'rubbish' gives 'N/A', an absent value gives 'N/A'.
C22_NormalizedValue ==
    nov_pc = "done" =>
        LET candidate == IF nov_value.t = "str" THEN Cleaned(nov_value.s)
                         ELSE <<>>
            matching == {opt \in Range(nov_allowed) :
                            candidate # <<>> /\ Lower(opt) = Lower(candidate)}
            na == {i \in DOMAIN nov_allowed : Lower(nov_allowed[i]) = Lower(sNA)}
        IN /\ nov_allowed # <<>> =>
                 /\ nov_result \in Range(nov_allowed)
                 /\ matching # {} => nov_result \in matching
                 /\ (matching = {} /\ na # {}) =>
                        /\ Lower(nov_result) = Lower(sNA)
                        /\ \A i \in na : \E j \in na :
                               j <= i /\ nov_allowed[j] = nov_result
                 /\ (matching = {} /\ na = {}) => nov_result = nov_allowed[1]
           /\ nov_allowed = <<>> =>
                 nov_result = (IF candidate # <<>> THEN candidate ELSE sNA)
           /\ nov_allowed = DEFAULT_CONDITION_OPTIONS =>
                 /\ nov_value = JStr(<<"g", "O", "o", "D">>) =>
                        nov_result = sGood
                 /\ nov_value = JStr(<<"r", "u", "b", "b", "i", "s", "h">>) =>
                        nov_result = sNA
                 /\ nov_value = JNull => nov_result = sNA

\* 'rubbish' against the five quality options has given 'N/A'
C22_RubbishGivesNA ==
    /\ nov_pc = "done"
    /\ nov_value = JStr(<<"r", "u", "b", "b", "i", "s", "h">>)
    /\ nov_allowed = DEFAULT_CONDITION_OPTIONS
    /\ nov_result = sNA

C29_MapsDisjointByKind ==
    (parse_pc = "done" /\ ~outcome.raised /\ HasIdsAndKinds(expected_items)) =>
        /\ DOMAIN outcome.booleans \cap DOMAIN outcome.categoricals = {}
        /\ DOMAIN outcome.booleans \cap DOMAIN outcome.conditionals = {}
        /\ DOMAIN outcome.categoricals \cap DOMAIN outcome.conditionals = {}
        /\ DOMAIN outcome.booleans
              \subseteq BatchIdsOfType(expected_items, "boolean")
        /\ DOMAIN outcome.categoricals
              \subseteq BatchIdsOfType(expected_items, "categorical")
        /\ DOMAIN outcome.conditionals
              \subseteq BatchIdsOfType(expected_items, "conditional")

C26_BucketsWithinCapacity ==
    /\ [](/\ 0 <= tpm_tokens /\ tpm_tokens <= tpm_capacity * Unit
          /\ 0 <= rpm_tokens /\ rpm_tokens <= rpm_capacity * Unit)
    /\ [][\/ /\ tpm_tokens' \in {tpm_tokens, refill_tpm}
             /\ rpm_tokens' \in {rpm_tokens, refill_rpm}
             /\ \A c \in Callers : pc'[c] = "acquired" => pc[c] = "acquired"
          \/ \E e \in 1..tokens_per_minute :
                /\ refill_tpm >= e * Unit /\ refill_rpm >= Unit
                /\ tpm_tokens' = refill_tpm - e * Unit
                /\ rpm_tokens' = refill_rpm - Unit
                /\ \E c \in Callers :
                      /\ pc[c] # "acquired" /\ pc'[c] = "acquired"
                      /\ \A d \in Callers \ {c} : pc'[d] = pc[d]]_vars

\* a call has taken the whole TPM bucket and one request together
C26_BothBucketsDeducted ==
    /\ \E c \in Callers : pc[c] = "acquired"
    /\ elapsed = 0
    /\ tpm_tokens = 0
    /\ rpm_tokens = rpm_capacity * Unit - Unit

\* C27: when time advances, scheduling is weakly fair, every caller whose
\* acquire returned calls release, estimated_tokens <= tpm_capacity and
\* rpm_capacity >= 1, every call of acquire returns in the end, also while
\* other callers keep acquiring and releasing.
C27_AcquireReturns ==
    \A c \in Callers :
        (pc[c] \in {"sem_wait", "sleeping"}) ~> (pc[c] = "acquired")

\* C28: a caller that waits for bucket tokens inside acquire holds a
\* semaphore slot: the callers sleeping or retrying in the token loop and
\* the callers whose acquire returned and who have not released are together
\* never more than max_concurrent, and the free slots are at most what they
\* leave; so when max_concurrent callers wait for tokens no other caller
\* reaches the bucket check.
C28_WaitersHoldSlots ==
    LET waiting == {c \in Callers : pc[c] = "sleeping"}
    IN /\ Cardinality(waiting) + Cardinality(Holding) <= max_concurrent
       /\ semaphore >= 0
       /\ semaphore <= max_concurrent
                          - (Cardinality(waiting) + Cardinality(Holding))
       /\ Cardinality(waiting) = max_concurrent =>
             \A c \in Callers \ waiting :
                 pc[c] \in {"idle", "sem_wait", "cancelled"}

\* max_concurrent callers sleep in the token loop and another caller waits
\* for a slot
C28_StarvedWithWaiter ==
    /\ Cardinality({c \in Callers : pc[c] = "sleeping"}) = max_concurrent
    /\ \E c \in Callers : pc[c] = "sem_wait"

\* C25: the rate-limit buckets and the concurrency semaphore are process-wide:
\* two scan requests whose pipelines run at the same time in the process have
\* the same RateLimiter, so that together they have one TPM bucket, one RPM
\* bucket and max_concurrent semaphore slots.
C25_OneGovernorPerProcess ==
    LET running == {r \in Scans : scan_pc[r] = "executing"}
        used == {scan_limiter[r] : r \in running}
    IN /\ \A r1, r2 \in running : scan_limiter[r1] = scan_limiter[r2]
       /\ SumSeq([i \in 1..Len(limiters) |->
                     IF i \in used THEN limiters[i].semaphore ELSE 0])
              <= max_concurrent

\* C30: fail-fast in the graph pipeline: once a node has recorded an error in
\* the pipeline state, the next step of the run is its end with the error: no
\* later node runs (not the room fan-out, not Agent 6), no inference call is
\* issued and no room is processed.
C30_GraphFailsFast ==
    [][(orchestrator = "langgraph" /\ state_error) =>
          /\ node' \in {"END", "raised"}
          /\ in_flight' = Null
          /\ room_results' = room_results
          /\ failed_rooms' = failed_rooms]_vars

====
